---- MODULE Spec2Model ----
(***************************************************************************)
(* The thread/message store of the fake Langbase API (src/threads.py) and  *)
(* its transport boundary (src/http_handler.py).                           *)
(*                                                                         *)
(* Spec      one request at a time: every action is one whole request,     *)
(*           from the _handle_* method of the HTTP handler down to the     *)
(*           ThreadStorage method and back to the status line.             *)
(* SpecConc  several request-handling units share the store and interleave *)
(*           at the statements of ThreadStorage that touch it.             *)
(* SpecRefs  a caller in the same process keeps the list that              *)
(*           ThreadHandler.handle_list_messages returned to it.            *)
(* SpecPipe  run requests served one at a time (src/pipes.py), each stream *)
(*           read to its end.                                              *)
(* SpecStream one streaming connection, event by event, with a consumer    *)
(*           that may go away.                                             *)
(* SpecSynth, SpecPlan, SpecSubst  the pure functions get_sample_response, *)
(*           generate_random_chunks and substitute_variables.              *)
(***************************************************************************)
EXTENDS Integers, Sequences, FiniteSets, TLC

VARIABLES
    threads,    \* ThreadStorage._threads : thread id -> thread_data
    messages,   \* ThreadStorage._messages: thread id -> list of message_data
    now,        \* the last value int(time.time()) returned
    uuid,       \* how many uuid.uuid4() values have been drawn
    last,       \* the last request served and its response
    createRet,  \* history: id -> record returned by the create that made it
    deleted,    \* history: ids deleted and not created again since
    pc,         \* SpecConc: the statement each unit is at
    loc,        \* SpecConc: the locals of each unit's call
    held,       \* SpecRefs: the list object a caller got from get_messages
    run,        \* SpecPipe: the last run request and the response to it
    seen,       \* SpecPipe: history, the thread ids responses have carried
    call,       \* SpecSynth, SpecPlan, SpecSubst: a call of a pure function
    conn,       \* SpecStream: one streaming connection
    srv,        \* SpecServe: the server loop of src/main.py
    meta        \* SpecMeta: the dict object a caller passes as metadata

\* the variables of the specifications other than Spec and SpecConc
otherVars == <<held, run, seen, call, conn, srv, meta>>

\* the variables each of the other specifications leaves alone
outsideRefs == <<last, createRet, deleted, pc, loc, run, seen, call, conn, srv,
                 meta>>
outsidePipe == <<threads, messages, last, createRet, deleted, pc, loc, held,
                 call, conn, srv, meta>>
outsideCall == <<threads, messages, now, uuid, last, createRet, deleted, pc, loc,
                 held, run, seen, conn, srv, meta>>
outsideStream == <<threads, messages, last, createRet, deleted, pc, loc, held,
                   run, seen, call, srv, meta>>
outsideServe == <<threads, messages, last, createRet, deleted, pc, loc, held,
                  run, seen, call, meta>>
outsideMeta == <<createRet, deleted, pc, loc, held, run, seen, call, conn, srv>>

vars == <<threads, messages, now, uuid, last, createRet, deleted, pc, loc,
          otherVars>>

-----------------------------------------------------------------------------
(* Bounds *)

MaxTime == 1        \* the clock takes the values 0..MaxTime
MaxUuid == 2        \* at most this many uuid4 draws in a behaviour

MaxPlanChunks == 3  \* SpecPlan: min_chunks and max_chunks are at most this, or the defaults
MaxPieces == 2      \* SpecSubst: a content is made of at most this many pieces
MaxRunDraws == 6    \* SpecPipe: at most this many uuid4 draws in a behaviour
MaxMessages == 2    \* SpecProc: a list of messages is at most this long
MaxBodyDraws == 3   \* SpecBody: at most this many uuid4 draws in a behaviour
MaxArrivals == 3    \* SpecServe: at most this many requests arrive in a behaviour
MaxLogDraws == 3    \* SpecLogs, SpecMeta: at most this many uuid4 draws in a behaviour

Units == {"u1", "u2"}   \* SpecConc: the concurrent request-handling units

-----------------------------------------------------------------------------
(* JSON values as Python sees them after json.loads *)

Null == [t |-> "null"]
Str(s) == [t |-> "str", v |-> s]
List(q) == [t |-> "list", v |-> q]
Dict(f) == [t |-> "dict", v |-> f]
Bool(b) == [t |-> "bool", v |-> b]
Num(n) == [t |-> "int", v |-> n]
EmptyMap == [k \in {} |-> Null]

IsDict(x) == x.t = "dict"
IsList(x) == x.t = "list"

\* bool(x): None, "", [] and {} are falsy
TruthyUnlessNone(x) == x # Null
Truthy(x) ==
    CASE x.t = "null" -> FALSE
      [] x.t = "bool" -> x.v
      [] x.t = "int"  -> x.v # 0
      [] x.t = "str"  -> x.v # ""
      [] x.t = "list" -> x.v # <<>>
      [] x.t = "dict" -> DOMAIN x.v # {}
      [] OTHER        -> TRUE

\* a or b
Or(a, b) == IF Truthy(a) THEN a ELSE b

\* d.get(k, default) on a Python dict d (a function on its keys)
DictGet(d, k, default) == IF k \in DOMAIN d THEN d[k] ELSE default

\* d.update(p): the keys of p are written over d, the others are kept
DictUpdate(d, p) ==
    [k \in DOMAIN d \cup DOMAIN p |-> IF k \in DOMAIN p THEN p[k] ELSE d[k]]

\* ids are strings; a string made of a prefix and a number is kept as the pair
GivenId(n) == [pre |-> "t", n |-> n]
ThreadUuid(n) == [pre |-> "thread_", n |-> n]      \* f"thread_{uuid.uuid4()}"
MsgUuidDrawnOnce(n) == [pre |-> "msg_", n |-> 1]
MsgUuid(n) == [pre |-> "msg_", n |-> n]            \* f"msg_{uuid.uuid4()}"

GivenIds == {GivenId(1)}       \* the ids callers supply

\* f with key k removed / set
Without(f, k) == [x \in DOMAIN f \ {k} |-> f[x]]
With(f, k, val) == [x \in DOMAIN f \cup {k} |-> IF x = k THEN val ELSE f[x]]

-----------------------------------------------------------------------------
(* ThreadStorage (src/threads.py).  A store value S is the record            *)
(* [threads, messages, uuid, now]; a call returns the outcome                *)
(* [S, exc, ret]: the store it leaves, the exception it raised ("none" when  *)
(* it returned) and the value it returned.                                   *)

Return(S, r) == [S |-> S, exc |-> "none", ret |-> r]
Raise(S, e) == [S |-> S, exc |-> e, ret |-> Null]

\* ThreadStorage._create_message_data, after the role check
CreateMessageDataNoDefaults(message_id, thread_id, message_dict, t) ==
    [id |-> message_id,
     thread_id |-> thread_id,
     created_at |-> t,
     role |-> message_dict["role"],
     content |-> DictGet(message_dict, "content", Null),
     tool_call_id |-> DictGet(message_dict, "tool_call_id", Null),
     tool_calls |-> DictGet(message_dict, "tool_calls", Null),
     name |-> DictGet(message_dict, "name", Null),
     attachments |-> DictGet(message_dict, "attachments", Null),
     metadata |-> DictGet(message_dict, "metadata", Null)]
CreateMessageData(message_id, thread_id, message_dict, t) ==
    [id |-> message_id,
     thread_id |-> thread_id,
     created_at |-> t,
     role |-> message_dict["role"],
     content |-> DictGet(message_dict, "content", Null),
     tool_call_id |-> DictGet(message_dict, "tool_call_id", Null),
     tool_calls |-> Or(DictGet(message_dict, "tool_calls", Null), List(<<>>)),
     name |-> DictGet(message_dict, "name", Null),
     attachments |-> Or(DictGet(message_dict, "attachments", Null), List(<<>>)),
     metadata |-> Or(DictGet(message_dict, "metadata", Null), Dict(EmptyMap))]

\* the role check of _create_message_data: "role" not in message_dict
LacksRole(message_dict) == "role" \notin DOMAIN message_dict

\* ThreadStorage.create_thread; thread_id is Null (None) or an id, metadata
\* any JSON value, t what int(time.time()) returns
CreateThreadOverwrite(S, thread_id, metadata, t) ==
    LET u == IF thread_id = Null THEN S.uuid + 1 ELSE S.uuid
        tid == IF thread_id = Null THEN ThreadUuid(u) ELSE thread_id
        thread_data == [id |-> tid, object |-> "thread", created_at |-> t,
                        metadata |-> Or(metadata, Dict(EmptyMap))]
    IN  Return([S EXCEPT !.threads = With(S.threads, tid, thread_data),
                         !.messages = With(S.messages, tid, <<>>),
                         !.uuid = u, !.now = t],
               thread_data)
create_thread(S, thread_id, metadata, t) ==
    LET u == IF thread_id = Null THEN S.uuid + 1 ELSE S.uuid
        tid == IF thread_id = Null THEN ThreadUuid(u) ELSE thread_id
        thread_data == [id |-> tid, object |-> "thread", created_at |-> t,
                        metadata |-> Or(metadata, Dict(EmptyMap))]
    IN  IF tid \in DOMAIN S.threads
        THEN Raise([S EXCEPT !.uuid = u], "ThreadExistsError")
        ELSE Return([S EXCEPT !.threads = With(S.threads, tid, thread_data),
                              !.messages = With(S.messages, tid, <<>>),
                              !.uuid = u, !.now = t],
                    thread_data)

\* ThreadStorage.get_thread
GetThreadStampedOnRead(S, thread_id) ==
    IF thread_id \notin DOMAIN S.threads
    THEN Raise(S, "ThreadNotFoundError")
    ELSE Return(S, [S.threads[thread_id] EXCEPT !.created_at = S.now])
get_thread(S, thread_id) ==
    IF thread_id \notin DOMAIN S.threads
    THEN Raise(S, "ThreadNotFoundError")
    ELSE Return(S, S.threads[thread_id])

\* the loop of ThreadStorage.add_messages over the items still to add; clock
\* holds the values int(time.time()) returns, one for each item
RECURSIVE AddLoop(_, _, _, _, _)
AddLoopInsertFirst(S, thread_id, items, clock, created) ==
    IF items = <<>>
    THEN Return(S, created)
    ELSE LET u == S.uuid + 1
             msg == Head(items).v
         IN  IF LacksRole(msg)
             THEN Raise([S EXCEPT !.uuid = u], "ValueError")
             ELSE IF thread_id \notin DOMAIN S.messages
             THEN Raise([S EXCEPT !.uuid = u, !.now = Head(clock)], "KeyError")
             ELSE LET data == CreateMessageData(MsgUuid(u), thread_id, msg, Head(clock))
                  IN  AddLoop([S EXCEPT !.messages[thread_id] = <<data>> \o @,
                                        !.uuid = u, !.now = Head(clock)],
                              thread_id, Tail(items), Tail(clock),
                              Append(created, data))
AddLoop(S, thread_id, items, clock, created) ==
    IF items = <<>>
    THEN Return(S, created)
    ELSE LET u == S.uuid + 1
             msg == Head(items).v
         IN  IF LacksRole(msg)
             THEN Raise([S EXCEPT !.uuid = u], "ValueError")
             ELSE IF thread_id \notin DOMAIN S.messages
             THEN Raise([S EXCEPT !.uuid = u, !.now = Head(clock)], "KeyError")
             ELSE LET data == CreateMessageData(MsgUuid(u), thread_id, msg, Head(clock))
                  IN  AddLoop([S EXCEPT !.messages[thread_id] = Append(@, data),
                                        !.uuid = u, !.now = Head(clock)],
                              thread_id, Tail(items), Tail(clock),
                              Append(created, data))

\* ThreadStorage.add_messages; messages is a Python list (a sequence)
AddMessagesNoLookup(S, thread_id, msgs, clock) ==
    AddLoop(S, thread_id, msgs, clock, <<>>)
add_messages(S, thread_id, msgs, clock) ==
    IF thread_id \notin DOMAIN S.threads
    THEN Raise(S, "ThreadNotFoundError")
    ELSE AddLoop(S, thread_id, msgs, clock, <<>>)

\* ThreadStorage.get_messages: self._messages.get(thread_id, [])
GetMessagesEmptyWhenAbsent(S, thread_id) ==
    Return(S, DictGet(S.messages, thread_id, <<>>))
get_messages(S, thread_id) ==
    IF thread_id \notin DOMAIN S.threads
    THEN Raise(S, "ThreadNotFoundError")
    ELSE Return(S, DictGet(S.messages, thread_id, <<>>))

\* ThreadStorage.update_thread (the second definition, which is the one the
\* class keeps); metadata is a Python dict.  A stored metadata that is a str
\* or a list has no update method.
update_thread(S, thread_id, metadata) ==
    IF thread_id \notin DOMAIN S.threads
    THEN Raise(S, "ThreadNotFoundError")
    ELSE IF ~IsDict(S.threads[thread_id].metadata)
    THEN Raise(S, "AttributeError")
    ELSE LET S2 == [S EXCEPT !.threads[thread_id].metadata =
                                 Dict(DictUpdate(@.v, metadata))]
         IN  Return(S2, S2.threads[thread_id])

\* ThreadStorage.delete_thread (the second definition)
DeleteThreadKeepLog(S, thread_id) ==
    IF thread_id \notin DOMAIN S.threads
    THEN Raise(S, "ThreadNotFoundError")
    ELSE Return([S EXCEPT !.threads = Without(S.threads, thread_id)], TRUE)
delete_thread(S, thread_id) ==
    IF thread_id \notin DOMAIN S.threads
    THEN Raise(S, "ThreadNotFoundError")
    ELSE Return([S EXCEPT !.threads = Without(S.threads, thread_id),
                          !.messages = Without(S.messages, thread_id)],
                TRUE)

-----------------------------------------------------------------------------
(* ThreadHandler (src/threads.py).  request_data is the decoded body, a     *)
(* Python dict; a handler returns the outcome of its storage calls, with    *)
(* ret the value it hands to the transport.                                 *)

\* ThreadHandler.handle_create_thread; clock holds the values of
\* int(time.time()): one for the thread, then one for each initial message
handle_create_thread(S, request_data, clock) ==
    LET thread_id == DictGet(request_data, "threadId", Null)
        metadata == DictGet(request_data, "metadata", Dict(EmptyMap))
        c == create_thread(S, thread_id, metadata, Head(clock))
        initial_messages == DictGet(request_data, "messages", List(<<>>))
    IN  IF c.exc = "ThreadExistsError"
        THEN Raise(c.S, "ThreadConflictError")
        ELSE IF ~Truthy(initial_messages)
        THEN c
        ELSE LET a == add_messages(c.S, c.ret.id, initial_messages.v, Tail(clock))
             IN  IF a.exc # "none" THEN a ELSE Return(a.S, c.ret)

\* ThreadHandler.handle_append_messages
handle_append_messages(S, thread_id, request_data, clock) ==
    LET msgs == DictGet(request_data, "messages", List(<<>>))
    IN  IF ~IsList(msgs) \/ ~Truthy(msgs)
        THEN Raise(S, "InvalidRequestError")
        ELSE add_messages(S, thread_id, msgs.v, clock)

\* ThreadHandler.handle_list_messages
handle_list_messages(S, thread_id) == get_messages(S, thread_id)

\* ThreadHandler.handle_get_thread
handle_get_thread(S, thread_id) == get_thread(S, thread_id)

\* ThreadHandler.handle_update_thread
HandleUpdateThreadLooksUpFirst(S, thread_id, request_data) ==
    LET metadata == DictGet(request_data, "metadata", Dict(EmptyMap))
    IN  IF thread_id \notin DOMAIN S.threads
        THEN Raise(S, "ThreadNotFoundError")
        ELSE IF ~IsDict(metadata)
        THEN Raise(S, "InvalidRequestError")
        ELSE update_thread(S, thread_id, metadata.v)
handle_update_thread(S, thread_id, request_data) ==
    LET metadata == DictGet(request_data, "metadata", Dict(EmptyMap))
    IN  IF ~IsDict(metadata)
        THEN Raise(S, "InvalidRequestError")
        ELSE update_thread(S, thread_id, metadata.v)

\* ThreadHandler.handle_delete_thread
handle_delete_thread(S, thread_id) ==
    LET d == delete_thread(S, thread_id)
    IN  IF d.exc # "none" THEN d ELSE Return(d.S, [success |-> TRUE])

-----------------------------------------------------------------------------
(* BaseSSERequestHandler (src/http_handler.py): the except clauses of each  *)
(* _handle_* method give the status line.  NoResponse stands for an         *)
(* exception no clause catches: it leaves the method and no status is sent. *)

NoResponse == 0

Uncaught500(exc) ==
    IF exc \in {"ValueError", "KeyError", "TypeError"} THEN 500 ELSE NoResponse

\* _handle_create_thread
StatusCreateThread(exc) ==
    CASE exc = "none" -> 201
      [] exc = "ThreadConflictError" -> 409
      [] exc = "JSONDecodeError" -> 400
      [] OTHER -> Uncaught500(exc)

\* _handle_append_messages
StatusAppendMessages(exc) ==
    CASE exc = "none" -> 200
      [] exc = "ThreadNotFoundError" -> 404
      [] exc = "InvalidRequestError" -> 400
      [] exc = "JSONDecodeError" -> 400
      [] OTHER -> Uncaught500(exc)

\* _handle_list_messages, _handle_get_thread, _handle_delete_thread
StatusRead(exc) ==
    CASE exc = "none" -> 200
      [] exc = "ThreadNotFoundError" -> 404
      [] OTHER -> Uncaught500(exc)

\* _handle_update_thread
StatusUpdateThread(exc) ==
    CASE exc = "none" -> 200
      [] exc = "ThreadNotFoundError" -> 404
      [] exc = "InvalidRequestError" -> 400
      [] exc = "JSONDecodeError" -> 400
      [] OTHER -> Uncaught500(exc)

-----------------------------------------------------------------------------
(* The requests the clients send *)

Absent == [t |-> "absent"]

\* a decoded body with the keys that are present
Body(threadId, metadata, msgs) ==
    LET f == [threadId |-> threadId, metadata |-> metadata, messages |-> msgs]
    IN  [k \in {x \in DOMAIN f : f[x] # Absent} |-> f[k]]

MsgUser == Dict([role |-> Str("user"), content |-> Str("hi"), attachments |-> Null])
MsgTool == Dict([role |-> Str("assistant"), content |-> Null,
                 tool_calls |-> List(<<Str("call_1")>>),
                 metadata |-> Dict([k1 |-> Str("v1")])])
MsgNoRole == Dict([content |-> Str("hi")])

GoodBatches == {<<MsgUser>>, <<MsgTool, MsgUser>>}
BadBatches == {<<MsgUser, MsgNoRole>>}

MetaMap == Dict([k0 |-> Str("v0"), k1 |-> Str("v1")])
CreateMetadata == {MetaMap, Str("abc")}
PatchMetadata == {Dict([k1 |-> Str("v9"), k2 |-> Str("v2")]), List(<<>>)}

\* with an id of the caller's, and (as src/test_threads_crud.py does) without
CreateBodies ==
    {Body(i, m, Absent) : i \in GivenIds, m \in CreateMetadata}
    \cup {Body(i, MetaMap, List(q)) : i \in GivenIds, q \in GoodBatches \cup BadBatches}
    \cup {Body(Absent, Absent, Absent), Body(Absent, MetaMap, List(<<MsgUser>>))}
AppendBodies ==
    {Body(Absent, Absent, b) :
        b \in {Null, List(<<>>)} \cup {List(q) : q \in GoodBatches \cup BadBatches}}
UpdateBodies == {Body(Absent, m, Absent) : m \in PatchMetadata}

\* the ids a path /v1/threads/{id} names: those callers supply, and the
\* generated ones a response has shown (of threads stored or deleted since)
PathIds == GivenIds \cup DOMAIN threads \cup deleted

\* what the next n calls of int(time.time()) return
Clocks(n) ==
    {c \in [1..n -> now..MaxTime] : \A i \in 1..(n - 1) : c[i] <= c[i + 1]}

\* the batch a request carries, <<>> when it carries none or no list
Batch(request) ==
    IF "messages" \in DOMAIN request /\ IsList(request["messages"])
    THEN request["messages"].v ELSE <<>>

\* the uuid4 draws the messages of a body need: one for each
Draws(body) == Len(Batch(body))

\* the draw for the id of a thread that comes without one
IdDraw(body) == IF "threadId" \in DOMAIN body THEN 0 ELSE 1

-----------------------------------------------------------------------------
(* Spec: one request at a time *)

Store == [threads |-> threads, messages |-> messages, uuid |-> uuid, now |-> now]

Idle == [u \in Units |-> "idle"]
NoLocals == [u \in Units |-> [op |-> "none", conc |-> {}]]

\* no list has been handed out
NoList == [got |-> FALSE, live |-> FALSE, tid |-> Null, value |-> <<>>,
           returned |-> <<>>, by |-> "none"]

\* no run request has been served
NoRun == [request |-> EmptyMap, response |-> [status |-> 0]]

\* no connection is open
NoConn == [at |-> "none"]

\* the server has not been started
NoServer == [at |-> "down"]

\* the dict object a caller in the process of the store holds, and the ids
\* of the threads whose stored metadata is this object
CallerDict == [value |-> [userId |-> Str("u1")], in |-> {}]

\* the state after the modules are loaded, but for the call of a pure function
\* that SpecSynth, SpecPlan and SpecSubst look at
Loaded ==
    /\ threads = <<>>
    /\ messages = <<>>
    /\ now = 0
    /\ uuid = 0
    /\ last = [op |-> "none"]
    /\ createRet = <<>>
    /\ deleted = {}
    /\ pc = Idle
    /\ loc = NoLocals
    /\ held = NoList
    /\ run = NoRun
    /\ seen = <<>>
    /\ conn = NoConn
    /\ srv = NoServer
    /\ meta = CallerDict

\* no call is looked at
NoCall == [fn |-> "none"]

Init == Loaded /\ call = NoCall

\* the request is served: the store the handler leaves, and the response
Served(op, thread_id, body, o, status) ==
    /\ threads' = o.S.threads
    /\ messages' = o.S.messages
    /\ uuid' = o.S.uuid
    /\ now' = o.S.now
    /\ last' = [op |-> op, thread_id |-> thread_id, request |-> body,
                len_before |-> Len(DictGet(messages, thread_id, <<>>)),
                exc |-> o.exc, status |-> status,
                body |-> IF o.exc = "none" THEN o.ret ELSE Null]
    /\ createRet' =
         LET kept == {i \in DOMAIN createRet :
                         ~(i = thread_id /\ status = 200 /\ op \in {"update", "delete"})}
         IN  [i \in kept \cup (IF op = "create" /\ status = 201 THEN {thread_id} ELSE {})
                |-> IF op = "create" /\ status = 201 /\ i = thread_id
                    THEN o.ret ELSE createRet[i]]
    /\ deleted' =
         (IF op = "delete" /\ status = 200 THEN deleted \cup {thread_id} ELSE deleted)
           \ DOMAIN o.S.threads
    /\ UNCHANGED <<pc, loc, otherVars>>

\* POST /v1/threads
HandleCreateThread ==
    \E body \in CreateBodies :
        /\ uuid + IdDraw(body) + Draws(body) <= MaxUuid
        /\ \E clock \in Clocks(1 + Draws(body)) :
              LET o == handle_create_thread(Store, body, clock)
                  tid == IF "threadId" \in DOMAIN body
                         THEN body["threadId"] ELSE ThreadUuid(uuid + 1)
              IN  Served("create", tid, body, o, StatusCreateThread(o.exc))

\* POST /v1/threads/{id}/messages
HandleAppendMessages ==
    \E thread_id \in PathIds, body \in AppendBodies :
        /\ uuid + Draws(body) <= MaxUuid
        /\ \E clock \in Clocks(Draws(body)) :
              LET o == handle_append_messages(Store, thread_id, body, clock)
              IN  Served("append", thread_id, body, o, StatusAppendMessages(o.exc))

\* GET /v1/threads/{id}/messages
HandleListMessages ==
    \E thread_id \in PathIds :
        LET o == handle_list_messages(Store, thread_id)
        IN  Served("list", thread_id, <<>>, o, StatusRead(o.exc))

\* GET /v1/threads/{id}
HandleGetThread ==
    \E thread_id \in PathIds :
        LET o == handle_get_thread(Store, thread_id)
        IN  Served("get", thread_id, <<>>, o, StatusRead(o.exc))

\* POST /v1/threads/{id}
HandleUpdateThread ==
    \E thread_id \in PathIds, body \in UpdateBodies :
        LET o == handle_update_thread(Store, thread_id, body)
        IN  Served("update", thread_id, body, o, StatusUpdateThread(o.exc))

\* DELETE /v1/threads/{id}
HandleDeleteThread ==
    \E thread_id \in PathIds :
        LET o == handle_delete_thread(Store, thread_id)
        IN  Served("delete", thread_id, <<>>, o, StatusRead(o.exc))

Next ==
    \/ HandleCreateThread
    \/ HandleAppendMessages
    \/ HandleListMessages
    \/ HandleGetThread
    \/ HandleUpdateThread
    \/ HandleDeleteThread

Spec == Init /\ [][Next]_vars

-----------------------------------------------------------------------------
(* SpecConc: the units run the methods of ThreadStorage statement by        *)
(* statement.  ThreadStorage holds no lock, so between two statements of    *)
(* one unit any statement of another unit may run.  pc[u] names the         *)
(* statement unit u executes next; loc[u] holds the call's arguments and    *)
(* locals, then its exception and status.  loc[u].conc is history: the      *)
(* units whose present call overlapped the present call of u.               *)

Running(u) == pc[u] \notin {"idle", "done"}

ConcCreateBodies ==
    {Body(i, m, b) : i \in GivenIds, m \in CreateMetadata,
                     b \in {Absent, List(<<MsgUser>>)}}
ConcAppendBodies == {Body(Absent, Absent, List(q)) : q \in GoodBatches}

\* the uuid4 draws the calls in progress will still make
Reserved ==
    LET n[U \in SUBSET Units] ==
            IF U = {} THEN 0
            ELSE LET u == CHOOSE x \in U : TRUE
                 IN  (IF Running(u) THEN Len(loc[u].items) ELSE 0) + n[U \ {u}]
    IN  n[Units]

\* unit u takes a request: the call starts at statement first
Begin(u, op, thread_id, body, first) ==
    /\ ~Running(u)
    /\ uuid + Reserved + Draws(body) <= MaxUuid
    /\ pc' = [pc EXCEPT ![u] = first]
    /\ loc' = [v \in Units |->
                 IF v = u
                 THEN [op |-> op, tid |-> thread_id, body |-> body,
                       data |-> Null, items |-> Batch(body), created |-> <<>>,
                       exc |-> "none", status |-> NoResponse, ret |-> Null,
                       conc |-> {w \in Units \ {u} : Running(w)}]
                 ELSE [loc[v] EXCEPT !.conc = IF Running(v) THEN @ \cup {u}
                                              ELSE @ \ {u}]]
    /\ UNCHANGED <<threads, messages, now, uuid, last, createRet, deleted, otherVars>>

BeginCreate(u) ==
    \E body \in ConcCreateBodies :
        Begin(u, "create", body["threadId"], body, "create_check")
BeginAppend(u) ==
    \E thread_id \in GivenIds, body \in ConcAppendBodies :
        Begin(u, "append", thread_id, body, "add_check")
BeginDelete(u) ==
    \E thread_id \in GivenIds :
        Begin(u, "delete", thread_id, <<>>, "delete_check")

\* the except clauses of the _handle_* method that serves the call
StatusOf(op, exc) ==
    CASE op = "create" -> StatusCreateThread(exc)
      [] op = "append" -> StatusAppendMessages(exc)
      [] OTHER -> StatusRead(exc)

\* the call of unit u ends: it raises exc, or returns ret when exc is "none"
Finish(u, exc, ret) ==
    /\ pc' = [pc EXCEPT ![u] = "done"]
    /\ loc' = [loc EXCEPT ![u].exc = exc, ![u].ret = ret,
                          ![u].status = StatusOf(loc[u].op, exc)]

\* create_thread: if thread_id in self._threads, then thread_data = {...}
CreateCheck(u) ==
    /\ pc[u] = "create_check"
    /\ IF loc[u].tid \in DOMAIN threads
       THEN /\ Finish(u, "ThreadConflictError", Null)
            /\ UNCHANGED now
       ELSE \E t \in now..MaxTime :
               /\ now' = t
               /\ pc' = [pc EXCEPT ![u] = "create_put_thread"]
               /\ loc' = [loc EXCEPT ![u].data =
                            [id |-> loc[u].tid, object |-> "thread", created_at |-> t,
                             metadata |-> Or(DictGet(loc[u].body, "metadata",
                                                     Dict(EmptyMap)),
                                             Dict(EmptyMap))]]
    /\ UNCHANGED <<threads, messages, uuid, last, createRet, deleted, otherVars>>

\* create_thread: self._threads[thread_id] = thread_data
CreatePutThread(u) ==
    /\ pc[u] = "create_put_thread"
    /\ threads' = With(threads, loc[u].tid, loc[u].data)
    /\ pc' = [pc EXCEPT ![u] = "create_put_log"]
    /\ UNCHANGED <<messages, now, uuid, loc, last, createRet, deleted, otherVars>>

\* create_thread: self._messages[thread_id] = [], and back in
\* handle_create_thread: if initial_messages
CreatePutLog(u) ==
    /\ pc[u] = "create_put_log"
    /\ messages' = With(messages, loc[u].tid, <<>>)
    /\ IF loc[u].items # <<>>
       THEN pc' = [pc EXCEPT ![u] = "add_check"] /\ UNCHANGED loc
       ELSE Finish(u, "none", loc[u].data)
    /\ UNCHANGED <<threads, now, uuid, last, createRet, deleted, otherVars>>

\* add_messages: if thread_id not in self._threads
AddCheck(u) ==
    /\ pc[u] = "add_check"
    /\ IF loc[u].tid \notin DOMAIN threads
       THEN Finish(u, "ThreadNotFoundError", Null)
       ELSE pc' = [pc EXCEPT ![u] = "add_item"] /\ UNCHANGED loc
    /\ UNCHANGED <<threads, messages, now, uuid, last, createRet, deleted, otherVars>>

\* add_messages: one turn of the loop, and the return after the last
AddItem(u) ==
    /\ pc[u] = "add_item"
    /\ uuid' = uuid + 1
    /\ LET msg == Head(loc[u].items).v
       IN  IF LacksRole(msg)
           THEN /\ Finish(u, "ValueError", Null)
                /\ UNCHANGED <<messages, now>>
           ELSE \E t \in now..MaxTime :
                   /\ now' = t
                   /\ IF loc[u].tid \notin DOMAIN messages
                      THEN /\ Finish(u, "KeyError", Null)
                           /\ UNCHANGED messages
                      ELSE LET data == CreateMessageData(MsgUuid(uuid + 1), loc[u].tid,
                                                         msg, t)
                               created == Append(loc[u].created, data)
                               done == Tail(loc[u].items) = <<>>
                           IN  /\ messages' = [messages EXCEPT ![loc[u].tid] =
                                                   Append(@, data)]
                               /\ pc' = [pc EXCEPT ![u] =
                                           IF done THEN "done" ELSE "add_item"]
                               /\ loc' = [loc EXCEPT
                                    ![u].items = Tail(@),
                                    ![u].created = created,
                                    ![u].ret = IF ~done THEN @
                                               ELSE IF loc[u].op = "create"
                                               THEN loc[u].data ELSE created,
                                    ![u].status = IF done
                                                  THEN StatusOf(loc[u].op, "none")
                                                  ELSE @]
    /\ UNCHANGED <<threads, last, createRet, deleted, otherVars>>

\* delete_thread: if thread_id not in self._threads
DeleteCheck(u) ==
    /\ pc[u] = "delete_check"
    /\ IF loc[u].tid \notin DOMAIN threads
       THEN Finish(u, "ThreadNotFoundError", Null)
       ELSE pc' = [pc EXCEPT ![u] = "delete_thread"] /\ UNCHANGED loc
    /\ UNCHANGED <<threads, messages, now, uuid, last, createRet, deleted, otherVars>>

\* delete_thread: del self._threads[thread_id]
DeleteThread(u) ==
    /\ pc[u] = "delete_thread"
    /\ IF loc[u].tid \notin DOMAIN threads
       THEN Finish(u, "KeyError", Null) /\ UNCHANGED threads
       ELSE /\ threads' = Without(threads, loc[u].tid)
            /\ pc' = [pc EXCEPT ![u] = "delete_log_check"]
            /\ UNCHANGED loc
    /\ UNCHANGED <<messages, now, uuid, last, createRet, deleted, otherVars>>

\* delete_thread: if thread_id in self._messages
DeleteLogCheck(u) ==
    /\ pc[u] = "delete_log_check"
    /\ IF loc[u].tid \in DOMAIN messages
       THEN pc' = [pc EXCEPT ![u] = "delete_log"] /\ UNCHANGED loc
       ELSE Finish(u, "none", [success |-> TRUE])
    /\ UNCHANGED <<threads, messages, now, uuid, last, createRet, deleted, otherVars>>

\* delete_thread: del self._messages[thread_id], return True
DeleteLog(u) ==
    /\ pc[u] = "delete_log"
    /\ IF loc[u].tid \notin DOMAIN messages
       THEN Finish(u, "KeyError", Null) /\ UNCHANGED messages
       ELSE /\ messages' = Without(messages, loc[u].tid)
            /\ Finish(u, "none", [success |-> TRUE])
    /\ UNCHANGED <<threads, now, uuid, last, createRet, deleted, otherVars>>

NextConc ==
    \/ \E u \in Units : BeginCreate(u)
    \/ \E u \in Units : BeginAppend(u)
    \/ \E u \in Units : BeginDelete(u)
    \/ \E u \in Units : CreateCheck(u)
    \/ \E u \in Units : CreatePutThread(u)
    \/ \E u \in Units : CreatePutLog(u)
    \/ \E u \in Units : AddCheck(u)
    \/ \E u \in Units : AddItem(u)
    \/ \E u \in Units : DeleteCheck(u)
    \/ \E u \in Units : DeleteThread(u)
    \/ \E u \in Units : DeleteLogCheck(u)
    \/ \E u \in Units : DeleteLog(u)

SpecConc == Init /\ [][NextConc]_vars

-----------------------------------------------------------------------------
(* Properties of Spec *)

\* the request's messages value is rejected by handle_append_messages
NoBatch(request) ==
    \/ "messages" \notin DOMAIN request
    \/ ~IsList(request["messages"])
    \/ request["messages"].v = <<>>

SomeLacksRole(request) ==
    \E i \in 1..Len(Batch(request)) : "role" \notin DOMAIN Batch(request)[i].v

\* C1: a createThread whose id is already in the store fails with Conflict
\* (409), and the step changes neither a thread record nor a message log, so
\* the existing thread keeps its id, createdAt, metadata and log and the
\* request's initial messages are not appended.
C1_DuplicateCreateConflicts ==
    [][(last'.op = "create" /\ last'.thread_id \in DOMAIN threads)
         => /\ last'.exc = "ThreadConflictError"
            /\ last'.status = 409
            /\ threads' = threads
            /\ messages' = messages]_vars

\* a duplicate create that carried initial messages was refused, on a thread
\* that holds messages of its own
C1_Witness ==
    /\ last.op = "create"
    /\ last.status = 409
    /\ Batch(last.request) # <<>>
    /\ last.len_before > 0

C5_UpdateMerges ==
    [][(/\ last'.op = "update"
        /\ last'.thread_id \in DOMAIN threads
        /\ "metadata" \in DOMAIN last'.request
        /\ IsDict(last'.request["metadata"]))
         => /\ last'.status = 200
            /\ LET old == threads[last'.thread_id].metadata.v
                   patch == last'.request["metadata"].v
                   new == threads'[last'.thread_id].metadata.v
               IN  /\ DOMAIN new = DOMAIN old \cup DOMAIN patch
                   /\ \A k \in DOMAIN patch : new[k] = patch[k]
                   /\ \A k \in DOMAIN old \ DOMAIN patch : new[k] = old[k]
            /\ last'.body = threads'[last'.thread_id]]_vars

\* C6: after a successful createThread, and while no updateThread or
\* deleteThread of that id has succeeded, getThread returns the id, createdAt
\* and metadata that createThread returned.
C6_GetReturnsWhatCreateReturned ==
    (last.op = "get" /\ last.thread_id \in DOMAIN createRet)
        => /\ last.status = 200
           /\ last.body.id = createRet[last.thread_id].id
           /\ last.body.created_at = createRet[last.thread_id].created_at
           /\ last.body.metadata = createRet[last.thread_id].metadata

\* a get of a thread made with metadata, after the clock moved on
C6_Witness ==
    /\ last.op = "get"
    /\ last.thread_id \in DOMAIN createRet
    /\ last.status = 200
    /\ Truthy(last.body.metadata)
    /\ last.body.created_at < now

\* C7 as stated: every get, list, update, append and delete of an id that was
\* deleted and not created again fails with NotFound.
C7_AllFailNotFound ==
    [][(last'.op \in {"get", "list", "update", "append", "delete"}
        /\ last'.thread_id \in deleted)
         => last'.status = 404]_vars

\* the request is refused by the handler before the store is asked
RefusedFirst(l) ==
    \/ l.op = "append" /\ NoBatch(l.request)
    \/ l.op = "update" /\ "metadata" \in DOMAIN l.request
                       /\ ~IsDict(l.request["metadata"])

\* C7 as amended: such a request fails with NotFound, unless it is an append
\* without a non-empty list of messages or an update whose patch is no
\* mapping, which fails with InvalidRequest; none succeeds.
C7_FailsAfterDelete ==
    [][(last'.op \in {"get", "list", "update", "append", "delete"}
        /\ last'.thread_id \in deleted)
         => /\ last'.status = IF RefusedFirst(last') THEN 400 ELSE 404
            /\ last'.exc = IF RefusedFirst(last')
                           THEN "InvalidRequestError" ELSE "ThreadNotFoundError"]_vars

\* the messages of a deleted thread are asked for
C7_Witness ==
    /\ last.op = "list"
    /\ last.thread_id \in deleted
    /\ last.status = 404

\* C8: appendMessages on an id that is not in the store fails with NotFound,
\* appendMessages without a non-empty list of messages fails with
\* InvalidRequest, and in both cases the store is unchanged.
C8_AppendRefused ==
    [][(last'.op = "append")
         => /\ NoBatch(last'.request)
                => /\ last'.exc = "InvalidRequestError"
                   /\ last'.status = 400
                   /\ threads' = threads /\ messages' = messages
            /\ (~NoBatch(last'.request) /\ last'.thread_id \notin DOMAIN threads)
                => /\ last'.exc = "ThreadNotFoundError"
                   /\ last'.status = 404
                   /\ threads' = threads /\ messages' = messages]_vars

\* a batch was sent to an id that is not in the store, which holds a thread
C8_Witness ==
    /\ last.op = "append"
    /\ last.status = 404
    /\ Batch(last.request) # <<>>
    /\ DOMAIN threads # {}

\* C9: an append to an existing thread of a batch in which a message lacks a
\* role is answered with InvalidRequest, status 400.
C9_MissingRoleIs400 ==
    (/\ last.op = "append"
     /\ last.thread_id \in DOMAIN threads
     /\ SomeLacksRole(last.request))
        => last.exc = "InvalidRequestError" /\ last.status = 400

\* the created records answer the batch, item by item
Answers(created, batch) ==
    /\ Len(created) = Len(batch)
    /\ \A i \in 1..Len(batch) :
          LET m == batch[i].v
              c == created[i]
          IN  /\ c.role = m["role"]
              /\ c.content = DictGet(m, "content", Null)
              /\ "tool_calls" \notin DOMAIN m => c.tool_calls = List(<<>>)
              /\ "attachments" \notin DOMAIN m => c.attachments = List(<<>>)
              /\ "metadata" \notin DOMAIN m => c.metadata = Dict(EmptyMap)

\* C10: a successful appendMessages leaves the log as the log before followed
\* by the records it returns, one for each input message and in input order,
\* each with its input's role and content and with empty defaults; a
\* successful createThread leaves the log as the records of its initial batch.
C10_AppendsInOrder ==
    [][/\ (last'.op = "append" /\ last'.status = 200)
            => /\ messages'[last'.thread_id]
                    = messages[last'.thread_id] \o last'.body
               /\ Answers(last'.body, Batch(last'.request))
       /\ (last'.op = "create" /\ last'.status = 201)
            => Answers(messages'[last'.thread_id], Batch(last'.request))]_vars

\* a batch was appended to a log that held a message
C10_Witness ==
    /\ last.op = "append"
    /\ last.status = 200
    /\ last.len_before > 0
    /\ Len(messages[last.thread_id]) = last.len_before + Len(last.body)

-----------------------------------------------------------------------------
(* Properties of SpecConc *)

\* the present calls of u and v have both ended, and they overlapped
BothEnded(u, v) ==
    /\ u # v
    /\ pc[u] = "done" /\ pc[v] = "done"
    /\ v \in loc[u].conc
    /\ loc[u].tid = loc[v].tid

\* C3: of two createThread calls with the same id that overlap, at most one
\* succeeds; when one succeeds the other fails with Conflict and the stored
\* thread is the record the successful call returned.
C3_OneCreateSucceeds ==
    \A u, v \in Units :
        (BothEnded(u, v) /\ loc[u].op = "create" /\ loc[v].op = "create"
         /\ loc[u].status = 201)
            => /\ loc[v].status = 409
               /\ loc[v].exc = "ThreadConflictError"
               /\ threads[loc[u].tid] = loc[u].ret

\* C4: when an appendMessages overlaps a deleteThread of the same id that
\* succeeds, the append succeeds or fails with NotFound, and no message log
\* is left for the deleted thread.
C4_AppendRacingDelete ==
    \A u, v \in Units :
        (BothEnded(u, v) /\ loc[u].op = "append" /\ loc[v].op = "delete"
         /\ loc[v].status = 200)
            => /\ \/ loc[u].status = 200
                  \/ loc[u].status = 404 /\ loc[u].exc = "ThreadNotFoundError"
               /\ loc[u].tid \notin DOMAIN messages

-----------------------------------------------------------------------------
(* Python str: a string is the sequence of its characters; Len, Head, Tail,  *)
(* SubSeq and \o act on it as on a sequence.                                 *)

Uppers == "ABCDEFGHIJKLMNOPQRSTUVWXYZ"
Lowers == "abcdefghijklmnopqrstuvwxyz"
Digits == "0123456789"

\* s[i - 1] in Python's counting
Char(s, i) == SubSeq(s, i, i)

\* s[i - 1:j]: a slice takes what there is
Slice(s, i, j) ==
    LET lo == IF i < 1 THEN 1 ELSE i
        hi == IF j > Len(s) THEN Len(s) ELSE j
    IN  IF lo > hi THEN "" ELSE SubSeq(s, lo, hi)

\* sub in s
Contains(s, sub) ==
    \E whole \in {s} :
        \E i \in 1..(Len(whole) - Len(sub) + 1) :
            SubSeq(whole, i, i + Len(sub) - 1) = sub

\* the characters of s
CharsOf(s) == {Char(s, i) : i \in 1..Len(s)}
UpperSet == CharsOf(Uppers)
LetterSet == CharsOf(Uppers) \cup CharsOf(Lowers)
WordSet == LetterSet \cup CharsOf(Digits) \cup {"_"}

IsUpper(c) == c \in UpperSet
IsLetter(c) == c \in LetterSet
\* the class \w of re
IsWordChar(c) == c \in WordSet
\* the class \s of re, and what str.split() and str.strip() take for blank
IsSpace(c) == c \in {" ", "\t", "\n"}

LowerChar(c) ==
    IF IsUpper(c)
    THEN Char(Lowers, CHOOSE i \in 1..Len(Uppers) : Char(Uppers, i) = c)
    ELSE c

\* s.lower()
RECURSIVE Lower(_)
Lower(s) == IF s = "" THEN "" ELSE LowerChar(Head(s)) \o Lower(Tail(s))

\* len(s.split()): the runs of characters that are not blank
WordCount(s) ==
    Cardinality({i \in 1..Len(s) :
                    /\ ~IsSpace(Char(s, i))
                    /\ (i = 1 \/ IsSpace(Char(s, i - 1)))})

\* s.isalpha()
IsAlpha(s) == s # "" /\ \A i \in 1..Len(s) : IsLetter(Char(s, i))

\* bool(s.strip())
HasNonSpace(s) == \E i \in 1..Len(s) : ~IsSpace(Char(s, i))

\* "".join(q)
RECURSIVE Join(_)
Join(q) == IF q = <<>> THEN "" ELSE Head(q) \o Join(Tail(q))

-----------------------------------------------------------------------------
(* PipeResponseGenerator (src/pipes.py) *)

SAMPLE_RESPONSES ==
    <<"Hello! I'm an AI assistant created by Langbase. How can I help you today?",
      "I understand you're looking for information. Let me provide you with a comprehensive response.",
      "Based on your question, here's what I can tell you about the topic you're interested in.",
      "Thank you for your question! I'm here to assist you with accurate and helpful information.">>

\* the canned replies
Replies == {SAMPLE_RESPONSES[i] : i \in 1..Len(SAMPLE_RESPONSES)}

\* str(x) for the values the requests carry outside a dict
PyStr(x) ==
    CASE x.t = "str"  -> x.v
      [] x.t = "null" -> "None"
      [] x.t = "int"  -> Char(Digits, x.v + 1)
      [] x.t = "bool" -> IF x.v THEN "True" ELSE "False"
      [] x.t = "list" -> "[]"

\* the content the generator reads off one message: msg.get("content", "")
\* of a dict, of the first item of a non-empty list, else str() of what is
\* there
ContentOf(msg) ==
    IF IsDict(msg) THEN DictGet(msg.v, "content", Str(""))
    ELSE IF IsList(msg) /\ msg.v # <<>>
    THEN IF IsDict(msg.v[1]) THEN DictGet(msg.v[1].v, "content", Str(""))
         ELSE Str(PyStr(msg.v[1]))
    ELSE Str(PyStr(msg))

\* PipeResponseGenerator.calculate_prompt_tokens; content.split() on a
\* content that is no str raises AttributeError and the message is skipped
RECURSIVE calculate_prompt_tokens(_)
calculate_prompt_tokens(msgs) ==
    IF msgs = <<>> THEN 0
    ELSE LET content == ContentOf(Head(msgs))
         IN  (IF content.t = "str" THEN WordCount(content.v) ELSE 0)
               + calculate_prompt_tokens(Tail(msgs))

\* the reply for the lower-cased text of the last message
ReplyFor(last_message) ==
    IF Contains(last_message, "hello") \/ Contains(last_message, "hi")
    THEN SAMPLE_RESPONSES[1]
    ELSE IF Contains(last_message, "help") \/ Contains(last_message, "question")
    THEN SAMPLE_RESPONSES[2]
    ELSE IF Contains(last_message, "information") \/ Contains(last_message, "tell me")
    THEN SAMPLE_RESPONSES[3]
    ELSE SAMPLE_RESPONSES[4]

\* PipeResponseGenerator.get_sample_response; .lower() on a content that is
\* no str raises AttributeError and the text is ""
GetSampleResponseOfFirst(msgs) ==
    IF msgs = <<>> THEN SAMPLE_RESPONSES[1]
    ELSE LET content == ContentOf(msgs[1])
         IN  ReplyFor(IF content.t = "str" THEN Lower(content.v) ELSE "")
get_sample_response(msgs) ==
    IF msgs = <<>> THEN SAMPLE_RESPONSES[1]
    ELSE LET content == ContentOf(msgs[Len(msgs)])
         IN  ReplyFor(IF content.t = "str" THEN Lower(content.v) ELSE "")

\* the alternative of \w+|[^\w\s]|\s+ a character starts
CharClass(c) == IF IsWordChar(c) THEN "w" ELSE IF IsSpace(c) THEN "s" ELSE "p"

\* the length of the match of \w+|[^\w\s]|\s+ that starts at text[i]: a run
\* of word characters, one other character, or a run of blanks
RECURSIVE RunEnd(_, _, _)
RunEnd(text, k, j) ==
    IF j < Len(text) /\ CharClass(Char(text, j + 1)) = k
    THEN RunEnd(text, k, j + 1) ELSE j
MatchEnd(text, i) ==
    LET k == CharClass(Char(text, i))
    IN  IF k = "p" THEN i ELSE RunEnd(text, k, i)

\* re.findall(r"\w+|[^\w\s]|\s+", text)
RECURSIVE FindFrom(_, _)
FindFrom(text, i) ==
    IF i > Len(text) THEN <<>>
    ELSE LET j == MatchEnd(text, i)
         IN  <<SubSeq(text, i, j)>> \o FindFrom(text, j + 1)
FindAll(text) == FindFrom(text, 1)

\* the first loop of generate_random_chunks on one word: a word of letters
\* longer than 4 goes in as its two halves
HalvesNoBlanks(word) == IF HasNonSpace(word) THEN <<word>> ELSE <<>>
Halves(word) ==
    IF HasNonSpace(word) /\ Len(word) > 4 /\ IsAlpha(word)
    THEN LET mid == Len(word) \div 2
         IN  <<SubSeq(word, 1, mid), SubSeq(word, mid + 1, Len(word))>>
    ELSE <<word>>

\* the second loop on one token: a token of letters longer than 2 goes in
\* character by character
Letters(token) ==
    IF Len(token) > 2 /\ IsAlpha(token)
    THEN [i \in 1..Len(token) |-> Char(token, i)]
    ELSE <<token>>

\* the first loop over the words, with the empty tokens removed
RECURSIVE SplitWords(_)
SplitWords(words) ==
    IF words = <<>> THEN <<>> ELSE Halves(Head(words)) \o SplitWords(Tail(words))

\* the second loop, run when there are fewer tokens than min_chunks
RECURSIVE ExpandTokens(_)
ExpandTokens(tokens) ==
    IF tokens = <<>> THEN <<>> ELSE Letters(Head(tokens)) \o ExpandTokens(Tail(tokens))
Expanded(tokens, min_chunks) ==
    IF Len(tokens) < min_chunks THEN ExpandTokens(tokens) ELSE tokens

\* the tokens of text before the number of chunks is drawn
Tokenize(text, min_chunks) ==
    Expanded(SelectSeq(SplitWords(FindAll(text)), LAMBDA token : token # ""),
             min_chunks)

\* the tokens spread over min(len(tokens), drawn) chunks, the first
\* len(tokens) % num_chunks of them one token longer
Distribute(tokens, drawn) ==
    LET num_chunks == IF Len(tokens) < drawn THEN Len(tokens) ELSE drawn
    IN  IF num_chunks >= Len(tokens) THEN tokens
        ELSE LET chunk_size == Len(tokens) \div num_chunks
                 remainder == Len(tokens) % num_chunks
                 start_idx(i) == i * chunk_size + (IF i < remainder THEN i ELSE remainder)
                 chunk(i) == Join(SubSeq(tokens, start_idx(i) + 1, start_idx(i + 1)))
             IN  SelectSeq([i \in 1..num_chunks |-> chunk(i - 1)],
                           LAMBDA chunk_content : chunk_content # "")

\* PipeResponseGenerator.generate_random_chunks; r is what
\* secrets.randbelow(max_chunks - min_chunks + 1) returns
generate_random_chunks(text, min_chunks, max_chunks, r) ==
    Distribute(Tokenize(text, min_chunks), r + min_chunks)

-----------------------------------------------------------------------------
(* SSEStreamGenerator and PipeHandler (src/pipes.py) *)

MIN_CHUNKS == 5
MAX_CHUNKS == 10

\* what secrets.randbelow(max_chunks - min_chunks + 1) may return
RunDraws == 0..(MAX_CHUNKS - MIN_CHUNKS)

\* str(uuid.uuid4()), f"chatcmpl-{uuid.uuid4().hex[:8]}" and
\* f"fp_{uuid.uuid4().hex[:12]}" for the n-th value drawn
RunUuid(n) == [pre |-> "", n |-> n]
CompletionId(n) == [pre |-> "chatcmpl-", n |-> n]
Fingerprint(n) == [pre |-> "fp_", n |-> n]

\* the dict every data: line of a stream is the json.dumps of
ChunkData(g, choices, usage) ==
    [id |-> g.completion_id, object |-> "chat.completion.chunk",
     created |-> g.created, system_fingerprint |-> g.fingerprint,
     choices |-> choices, usage |-> usage]

RoleChunk(g) ==
    ChunkData(g, <<[index |-> 0,
                    delta |-> [role |-> "assistant", content |-> "", refusal |-> Null],
                    finish_reason |-> Null]>>, Null)
ContentChunkOfFirst(g, i) ==
    ChunkData(g, <<[index |-> 0, delta |-> [content |-> g.chunks[1]],
                    finish_reason |-> Null]>>, Null)
ContentChunk(g, i) ==
    ChunkData(g, <<[index |-> 0, delta |-> [content |-> g.chunks[i]],
                    finish_reason |-> Null]>>, Null)
FinishChunkUnmarked(g) ==
    ChunkData(g, <<[index |-> 0, delta |-> EmptyMap, finish_reason |-> Null]>>, Null)
FinishChunk(g) ==
    ChunkData(g, <<[index |-> 0, delta |-> EmptyMap, finish_reason |-> Str("stop")]>>, Null)
\* the usage dict of a request with these two counts
Usage(prompt_tokens, completion_tokens) ==
    [prompt_tokens |-> prompt_tokens,
     completion_tokens |-> completion_tokens,
     total_tokens |-> prompt_tokens + completion_tokens]
UsageChunkNoPrompt(g) ==
    ChunkData(g, <<>>, Usage(0, WordCount(g.text)))
UsageChunk(g) ==
    ChunkData(g, <<>>, Usage(calculate_prompt_tokens(g.msgs), WordCount(g.text)))

\* the line "data: [DONE]"
DoneLine == [object |-> "[DONE]"]

\* the generator object generate_sse_stream(messages, completion_id, thread_id)
\* returns: none of its body has run
NewStream(msgs, completion_id) ==
    [at |-> "new", msgs |-> msgs, completion_id |-> completion_id, text |-> "",
     chunks |-> <<>>, created |-> 0, fingerprint |-> Null, i |-> 0, sleeps |-> 0]

\* the generator once the statements before the first yield have run on the
\* reply text: r is the random draw of generate_random_chunks, t the clock
\* and u the uuid4 values drawn so far
\* generate_random_chunks(text, MIN_CHUNKS, MAX_CHUNKS) on each canned reply
\* and each random draw, computed once
ReplyChunks ==
    [text \in Replies, r \in RunDraws |->
        generate_random_chunks(text, MIN_CHUNKS, MAX_CHUNKS, r)]
Started(g, text, r, t, u) ==
    [g EXCEPT !.at = "role", !.text = text,
              !.chunks = IF text \in Replies /\ r \in RunDraws
                         THEN ReplyChunks[text, r]
                         ELSE generate_random_chunks(text, MIN_CHUNKS, MAX_CHUNKS, r),
              !.created = t, !.fingerprint = Fingerprint(u + 1)]
FirstYield(h) == [g |-> h, out |-> RoleChunk(h)]

\* next() on a generator that sleeps after its last content chunk too
StreamNextSleepsAfterLast(g, r, t, u) ==
    CASE g.at = "new" ->
           FirstYield(Started(g, get_sample_response(g.msgs), r, t, u))
      [] g.at = "role" ->
           IF g.chunks = <<>>
           THEN [g |-> [g EXCEPT !.at = "finish", !.sleeps = @ + 1],
                 out |-> FinishChunk(g)]
           ELSE [g |-> [g EXCEPT !.at = "content", !.i = 1, !.sleeps = @ + 1],
                 out |-> ContentChunk(g, 1)]
      [] g.at = "content" ->
           IF g.i < Len(g.chunks)
           THEN [g |-> [g EXCEPT !.i = @ + 1, !.sleeps = @ + 1],
                 out |-> ContentChunk(g, g.i + 1)]
           ELSE [g |-> [g EXCEPT !.at = "finish", !.sleeps = @ + 1],
                 out |-> FinishChunk(g)]
      [] g.at = "finish" -> [g |-> [g EXCEPT !.at = "usage"], out |-> UsageChunk(g)]
      [] g.at = "usage" -> [g |-> [g EXCEPT !.at = "done"], out |-> DoneLine]
      [] OTHER -> [g |-> [g EXCEPT !.at = "end"], out |-> Null]

\* next() on the generator g: the body runs on to its next yield.  r, t and
\* u are read on the first call only.  out is the value yielded, Null when
\* the body ends (StopIteration).
StreamNext(g, r, t, u) ==
    CASE g.at = "new" ->
           FirstYield(Started(g, get_sample_response(g.msgs), r, t, u))
      [] g.at = "role" ->
           IF g.chunks = <<>>
           THEN [g |-> [g EXCEPT !.at = "finish", !.sleeps = @ + 1],
                 out |-> FinishChunk(g)]
           ELSE [g |-> [g EXCEPT !.at = "content", !.i = 1, !.sleeps = @ + 1],
                 out |-> ContentChunk(g, 1)]
      [] g.at = "content" ->
           IF g.i < Len(g.chunks)
           THEN [g |-> [g EXCEPT !.i = @ + 1, !.sleeps = @ + 1],
                 out |-> ContentChunk(g, g.i + 1)]
           ELSE [g |-> [g EXCEPT !.at = "finish"], out |-> FinishChunk(g)]
      [] g.at = "finish" -> [g |-> [g EXCEPT !.at = "usage"], out |-> UsageChunk(g)]
      [] g.at = "usage" -> [g |-> [g EXCEPT !.at = "done"], out |-> DoneLine]
      [] OTHER -> [g |-> [g EXCEPT !.at = "end"], out |-> Null]

\* list(g): everything the generator yields when it is read to its end
RECURSIVE Drain(_, _, _, _)
DrainFrom(n, r, t, u) ==
    IF n.out = Null THEN <<>> ELSE <<n.out>> \o Drain(n.g, r, t, u)
Drain(g, r, t, u) == DrainFrom(StreamNext(g, r, t, u), r, t, u)

\* the body of a completion that is not streamed
Completion(completion_id, response_text, t, prompt_tokens, fingerprint) ==
    [completion |-> response_text,
     raw |-> [id |-> completion_id, object |-> "chat.completion",
              created |-> t, model |-> "gpt-4o-mini",
              choices |-> <<[index |-> 0,
                             message |-> [role |-> "assistant",
                                          content |-> response_text],
                             logprobs |-> Null,
                             finish_reason |-> Str("stop")]>>,
              usage |-> Usage(prompt_tokens, WordCount(response_text)),
              system_fingerprint |-> fingerprint]]

\* handle_run_pipe once the three keys are read off the request
RunPipe(msgs, stream, thread_id, u, t) ==
    IF ~Truthy(msgs)
    THEN [exc |-> "InvalidPipeRequestError", uuid |-> u, status |-> 0,
          headers |-> EmptyMap, result |-> Null]
    ELSE IF Truthy(stream)
    THEN [exc |-> "none", uuid |-> u + 2, status |-> 200,
          headers |-> ("lb-thread-id" :> thread_id)
                        @@ ("Cache-Control" :> "no-cache")
                        @@ ("Connection" :> "close")
                        @@ ("Access-Control-Expose-Headers" :> "lb-thread-id"),
          result |-> NewStream(msgs.v, CompletionId(u + 2))]
    ELSE [exc |-> "none", uuid |-> u + 3, status |-> 200,
          headers |-> ("lb-thread-id" :> thread_id),
          result |-> Completion(CompletionId(u + 2), get_sample_response(msgs.v), t,
                                calculate_prompt_tokens(msgs.v), Fingerprint(u + 3))]

\* PipeHandler.handle_run_pipe; u is the number of uuid4 values drawn so far
\* and t what int(time.time()) returns.  The outcome holds the exception
\* ("none" when the call returns), the tuple returned and the new u.  The
\* default of threadId is an argument of .get: str(uuid.uuid4()) is drawn
\* whether the key is there or not.
HandleRunPipeOwnId(request_data, u, t) ==
    RunPipe(DictGet(request_data, "messages", List(<<>>)),
            DictGet(request_data, "stream", Bool(FALSE)),
            RunUuid(u + 1), u, t)
handle_run_pipe(request_data, u, t) ==
    RunPipe(DictGet(request_data, "messages", List(<<>>)),
            DictGet(request_data, "stream", Bool(FALSE)),
            DictGet(request_data, "threadId", RunUuid(u + 1)), u, t)

\* what _handle_run_pipe sends for the outcome o of handle_run_pipe when the
\* consumer takes every write
Respond(o, r, t) ==
    IF o.exc = "InvalidPipeRequestError"
    THEN [status |-> 400, uuid |-> o.uuid,
          headers |-> ("Content-Type" :> "text/html;charset=utf-8"),
          body |-> Null, events |-> <<>>]
    ELSE IF "Cache-Control" \in DOMAIN o.headers
    THEN [status |-> o.status, uuid |-> o.uuid + 1,
          headers |-> o.headers @@ ("Content-Type" :> "text/event-stream")
                        @@ ("Access-Control-Allow-Origin" :> "*"),
          body |-> Null, events |-> Drain(o.result, r, t, o.uuid)]
    ELSE [status |-> o.status, uuid |-> o.uuid,
          headers |-> ("Content-Type" :> "application/json")
                        @@ ("Access-Control-Allow-Origin" :> "*") @@ o.headers,
          body |-> o.result, events |-> <<>>]

\* BaseSSERequestHandler._handle_run_pipe with a consumer that takes every
\* write: the status line, the headers, and the body or the events written.
\* r is the random draw of the chunk planner.
RunPipeResponse(request_data, u, t, r) ==
    Respond(handle_run_pipe(request_data, u, t), r, t)

-----------------------------------------------------------------------------
(* SpecRefs: a caller in the process of the store (as src/test_threads_crud  *)
(* is) calls ThreadHandler and keeps what handle_list_messages returned.    *)
(* get_messages returns self._messages.get(thread_id, []): the list object  *)
(* stored under the id, not a copy of it.  held.value is what that object   *)
(* holds now, held.returned what it held when it was returned, held.live    *)
(* whether _messages still refers to it, held.by who acted last.            *)

\* the caller's list once the store holds the logs M: add_messages appends to
\* the stored object, delete_thread drops the store's reference to it
Seen(M) ==
    IF ~held.live THEN held
    ELSE IF held.tid \in DOMAIN M THEN [held EXCEPT !.value = M[held.tid]]
    ELSE [held EXCEPT !.live = FALSE]

\* a call into the store has ended with outcome o
RefsStored(o) ==
    /\ threads' = o.S.threads
    /\ messages' = o.S.messages
    /\ uuid' = o.S.uuid
    /\ now' = o.S.now
    /\ held' = [Seen(o.S.messages) EXCEPT !.by = "store"]
    /\ UNCHANGED outsideRefs

RefsCreateBodies ==
    {Body(i, Absent, b) : i \in GivenIds, b \in {Absent, List(<<MsgUser>>)}}
RefsAppendBodies == {Body(Absent, Absent, List(q)) : q \in GoodBatches}

\* thread_handler.handle_create_thread(request_data)
RefsCreateThread ==
    \E body \in RefsCreateBodies :
        /\ uuid + Draws(body) <= MaxUuid
        /\ \E clock \in Clocks(1 + Draws(body)) :
              RefsStored(handle_create_thread(Store, body, clock))

\* thread_handler.handle_append_messages(thread_id, request_data)
RefsAppendMessages ==
    \E thread_id \in GivenIds, body \in RefsAppendBodies :
        /\ uuid + Draws(body) <= MaxUuid
        /\ \E clock \in Clocks(Draws(body)) :
              RefsStored(handle_append_messages(Store, thread_id, body, clock))

\* thread_handler.handle_delete_thread(thread_id)
RefsDeleteThread ==
    \E thread_id \in GivenIds :
        RefsStored(handle_delete_thread(Store, thread_id))

\* messages, status = thread_handler.handle_list_messages(thread_id)
RefsListMessages ==
    \E thread_id \in GivenIds :
        LET o == handle_list_messages(Store, thread_id)
        IN  /\ held' = IF o.exc # "none" THEN held
                       ELSE [got |-> TRUE, live |-> thread_id \in DOMAIN messages,
                             tid |-> thread_id, value |-> o.ret,
                             returned |-> o.ret, by |-> "list"]
            /\ UNCHANGED <<threads, messages, now, uuid, outsideRefs>>

\* the caller changes the list it was given: messages.pop()
RefsCallerPops ==
    /\ held.got
    /\ held.value # <<>>
    /\ LET shorter == SubSeq(held.value, 1, Len(held.value) - 1)
       IN  /\ held' = [held EXCEPT !.value = shorter, !.by = "caller"]
           /\ messages' = IF held.live
                          THEN [messages EXCEPT ![held.tid] = shorter]
                          ELSE messages
    /\ UNCHANGED <<threads, now, uuid, outsideRefs>>

NextRefs ==
    \/ RefsCreateThread
    \/ RefsAppendMessages
    \/ RefsDeleteThread
    \/ RefsListMessages
    \/ RefsCallerPops

SpecRefs == Init /\ [][NextRefs]_vars

\* C11: once listMessages has returned a sequence, no later store operation
\* changes that sequence, and a change the caller makes to it does not change
\* a stored log.
C11_ListIsSnapshot ==
    [][held.got
         => /\ held'.by = "store" => held'.value = held.value
            /\ held'.by = "caller" => messages' = messages]_vars

-----------------------------------------------------------------------------
(* SpecPipe: POST /v1/pipes/run, one request at a time; the consumer reads   *)
(* every stream to its end.                                                 *)

\* a message with a role and a content
Msg(role, content) == Dict([role |-> Str(role), content |-> Str(content)])

RunMessages ==
    {<<Msg("user", "Hello!")>>,
     <<Msg("user", "hi  there"), Msg("assistant", "ok"), Msg("user", "I need help")>>,
     <<Dict([role |-> Str("user")]), Msg("user", "tell me\nmore")>>,
     <<Msg("user", "some words"), Dict([role |-> Str("tool"), content |-> Null])>>}

\* a decoded run request with the keys that are present
RunBody(msgs, stream, threadId) ==
    LET f == [messages |-> msgs, stream |-> stream, threadId |-> threadId]
    IN  [k \in {x \in DOMAIN f : f[x] # Absent} |-> f[k]]

\* the requests: no messages field, null, an empty list or one of the lists
\* above; stream missing, false or true; threadId missing or supplied
RunRequests ==
    {RunBody(m, st, i) :
        m \in {Absent, Null, List(<<>>)} \cup {List(q) : q \in RunMessages},
        st \in {Absent, Bool(FALSE), Bool(TRUE)},
        i \in {Absent, GivenId(1)}}

\* the response to request has been sent, and the thread the response names
\* is stored when the store has none of that id
RanAndStored(request, response) ==
    /\ run' = [request |-> request, response |-> response]
    /\ uuid' = response.uuid
    /\ seen' = IF response.status = 200
               THEN Append(seen, response.headers["lb-thread-id"])
               ELSE seen
    /\ threads' = IF response.status = 200
                     /\ response.headers["lb-thread-id"] \notin DOMAIN threads
                  THEN With(threads, response.headers["lb-thread-id"],
                            [id |-> response.headers["lb-thread-id"]])
                  ELSE threads
    /\ UNCHANGED <<messages, last, createRet, deleted, pc, loc, held, call,
                   conn, srv, meta>>

\* the response to request has been sent
Ran(request, response) ==
    /\ run' = [request |-> request, response |-> response]
    /\ uuid' = response.uuid
    /\ seen' = IF response.status = 200
               THEN Append(seen, response.headers["lb-thread-id"])
               ELSE seen
    /\ UNCHANGED outsidePipe

\* the draws a request makes: the clock if it is served, the random number
\* of the chunk planner if it streams
ClockDraws(o) == IF o.exc = "none" THEN now..MaxTime ELSE {now}
ChunkDraws(o) == IF "Cache-Control" \in DOMAIN o.headers THEN RunDraws ELSE {0}

\* POST /v1/pipes/run
HandleRunPipe ==
    \E request \in RunRequests :
        /\ Truthy(DictGet(request, "messages", List(<<>>))) => uuid + 3 <= MaxRunDraws
        /\ \E t \in ClockDraws(handle_run_pipe(request, uuid, now)),
               r \in ChunkDraws(handle_run_pipe(request, uuid, now)) :
              /\ now' = t
              /\ Ran(request, RunPipeResponse(request, uuid, t, r))

NextPipe == HandleRunPipe

SpecPipe == Init /\ [][NextPipe]_vars

-----------------------------------------------------------------------------
(* Properties of SpecPipe *)

\* a run request has been answered
Answered == run.response.status # 0

\* the request just answered had no messages field, or an empty messages list
NoMessages ==
    \/ "messages" \notin DOMAIN run.request
    \/ run.request["messages"] = List(<<>>)

\* C12: a run request with no messages field or with an empty messages list
\* fails as an invalid request, whether stream is true, false or missing:
\* handle_run_pipe raises InvalidPipeRequestError, the status is 400, and
\* neither a completion nor any stream event is produced.
C12_NoMessagesIsInvalid ==
    (Answered /\ NoMessages)
        => /\ handle_run_pipe(run.request, uuid, now).exc = "InvalidPipeRequestError"
           /\ run.response.status = 400
           /\ run.response.body = Null
           /\ run.response.events = <<>>

\* an empty messages list with stream true has been refused
C12_Witness ==
    /\ Answered
    /\ run.request = RunBody(List(<<>>), Bool(TRUE), Absent)
    /\ run.response.status = 400

\* the request with its stream flag turned over and the rest as it is
Flipped(request) ==
    With(request, "stream", Bool(~Truthy(DictGet(request, "stream", Bool(FALSE)))))

\* id is none of the ids the responses so far carried
Fresh(id, sofar) == \A i \in 1..Len(sofar) : sofar[i] # id

\* C13: a run request that is served carries the conversation id in the
\* header lb-thread-id, and so does the request that differs from it in the
\* stream flag only, sent next: with a threadId supplied both carry exactly
\* that value; with none supplied each carries an id generated for it, which
\* no earlier response carried.
C13_ThreadIdHeaderInBothModes ==
    (Answered /\ run.response.status = 200)
        => LET mine == run.response.headers
               other == RunPipeResponse(Flipped(run.request), uuid, now, 0).headers
               before == SubSeq(seen, 1, Len(seen) - 1)
           IN  /\ "lb-thread-id" \in DOMAIN mine
               /\ "lb-thread-id" \in DOMAIN other
               /\ "threadId" \in DOMAIN run.request
                     => /\ mine["lb-thread-id"] = run.request["threadId"]
                        /\ other["lb-thread-id"] = run.request["threadId"]
               /\ "threadId" \notin DOMAIN run.request
                     => /\ mine["lb-thread-id"] \in {RunUuid(n) : n \in 1..uuid}
                        /\ Fresh(mine["lb-thread-id"], before)
                        /\ other["lb-thread-id"] \in {RunUuid(n) : n \in 1..(uuid + 1)}
                        /\ Fresh(other["lb-thread-id"], seen)

\* two requests without a threadId have been served, the second one streamed,
\* and each got an id of its own
C13_Witness ==
    /\ Len(seen) = 2
    /\ "threadId" \notin DOMAIN run.request
    /\ "Cache-Control" \in DOMAIN run.response.headers
    /\ seen[1] = RunUuid(1)
    /\ seen[2] = RunUuid(4)

\* the words of s as whitespace delimits them, counted at their last
\* characters
Words(s) ==
    Cardinality({i \in 1..Len(s) :
                    /\ Char(s, i) \notin {" ", "\t", "\n"}
                    /\ (i = Len(s) \/ Char(s, i + 1) \in {" ", "\t", "\n"})})

\* the words of the contents of the messages; a message with no content, or
\* with a content that is no text, has none
RECURSIVE PromptWords(_)
PromptWords(msgs) ==
    IF msgs = <<>> THEN 0
    ELSE LET m == Head(msgs).v
             n == IF "content" \in DOMAIN m /\ m["content"].t = "str"
                  THEN Words(m["content"].v) ELSE 0
         IN  n + PromptWords(Tail(msgs))

\* the events of a stream that carry no choices
UsageEvents(events) ==
    {i \in 1..Len(events) :
        "choices" \in DOMAIN events[i] /\ events[i].choices = <<>>}

\* the usage figures a response reports: those of the body, or those of the
\* events without choices
UsagesOf(response) ==
    IF response.events = <<>> THEN {response.body.raw.usage}
    ELSE {response.events[i].usage : i \in UsageEvents(response.events)}

\* the reply a response delivers: the completion of the body, or the content
\* deltas of the stream put together
RECURSIVE Deltas(_)
Deltas(events) ==
    IF events = <<>> THEN ""
    ELSE LET e == Head(events)
             d == IF "choices" \in DOMAIN e /\ e.choices # <<>>
                     /\ "content" \in DOMAIN e.choices[1].delta
                  THEN e.choices[1].delta.content ELSE ""
         IN  d \o Deltas(Tail(events))
ReplyOf(response) ==
    IF response.events = <<>> THEN response.body.completion
    ELSE Deltas(response.events)

\* C15: a served run request reports, in the body of the completion or in the
\* one usage event of the stream, prompt_tokens = the words of the contents of
\* its messages, completion_tokens = the words of the reply it delivers and
\* total_tokens = their sum; the same request with the stream flag turned
\* over reports the same three numbers.
C15_UsageCountsWords ==
    (Answered /\ run.response.status = 200)
        => LET p == PromptWords(run.request["messages"].v)
               c == Words(ReplyOf(run.response))
           IN  /\ UsagesOf(run.response)
                     = {[prompt_tokens |-> p, completion_tokens |-> c,
                         total_tokens |-> p + c]}
               /\ UsagesOf(RunPipeResponse(Flipped(run.request), uuid, now, 0))
                     = UsagesOf(run.response)

\* the three-message request has been streamed: 2 + 1 + 3 words in, the 14
\* words of the second canned reply out
C15_Witness ==
    /\ Answered
    /\ run.response.events # <<>>
    /\ Len(run.request["messages"].v) = 3
    /\ UsagesOf(run.response)
          = {[prompt_tokens |-> 6, completion_tokens |-> 14, total_tokens |-> 20]}

-----------------------------------------------------------------------------
(* SpecSynth: PipeResponseGenerator.get_sample_response called on a list of   *)
(* messages.  call holds the function called, its argument and, once it has  *)
(* returned, its result.                                                     *)

\* the contents of the messages: texts, null, or no content key
SynthContents ==
    {Str(c) : c \in {"Hello!", "HI", "this", "I need help", "a Question?",
                     "more information", "Tell me", "tell  me", "thanks", "",
                     "help and HELLO", "information on the question",
                     "tell me, HELP"}}
        \cup {Null, Absent}

SynthMessage(content) ==
    IF content = Absent THEN Dict([role |-> Str("user")])
    ELSE Dict([role |-> Str("user"), content |-> content])

\* the lists of at most two messages
SynthInputs ==
    {<<>>} \cup {<<SynthMessage(c)>> : c \in SynthContents}
           \cup {<<SynthMessage(b), SynthMessage(c)>> : b, c \in SynthContents}

Called(fn, args) == [fn |-> fn, args |-> args, done |-> FALSE, ret |-> Null]

InitSynth ==
    /\ Loaded
    /\ call \in {Called("get_sample_response", msgs) : msgs \in SynthInputs}

\* response_generator.get_sample_response(messages) returns
CallGetSampleResponse ==
    /\ call.fn = "get_sample_response"
    /\ ~call.done
    /\ call' = [call EXCEPT !.done = TRUE, !.ret = get_sample_response(call.args)]
    /\ UNCHANGED outsideCall

NextSynth == CallGetSampleResponse

SpecSynth == InitSynth /\ [][NextSynth]_vars

\* the words that select the replies A, B and C, in the order they are tried
Keywords == <<{"hello", "hi"}, {"help", "question"}, {"information", "tell me"}>>

\* text has word in it somewhere, whatever the case of its letters
Mentions(text, word) ==
    \E i \in 1..Len(text) :
        i + Len(word) - 1 <= Len(text)
            /\ Lower(SubSeq(text, i, i + Len(word) - 1)) = word

\* the first of the replies A, B, C whose words text mentions, else D
Rank(text) ==
    CHOOSE k \in 1..4 :
        /\ k = 4 \/ \E w \in Keywords[k] : Mentions(text, w)
        /\ \A j \in 1..(k - 1) : \A w \in Keywords[j] : ~Mentions(text, w)

\* the text of the last message; none when the content is missing or null
LastText(msgs) ==
    LET m == msgs[Len(msgs)].v
    IN  IF "content" \in DOMAIN m /\ m["content"].t = "str"
        THEN m["content"].v ELSE ""

\* C14: get_sample_response returns the first canned reply for an empty
\* list; otherwise the reply is chosen by the content of the last message
\* alone, case ignored: reply A if it contains "hello" or "hi", else B if it
\* contains "help" or "question", else C if it contains "information" or
\* "tell me", else D.  Messages before the last one make no difference.
C14_ReplyByLastMessage ==
    call.done
        => /\ call.args = <<>> => call.ret = SAMPLE_RESPONSES[1]
           /\ call.args # <<>>
                 => /\ call.ret = SAMPLE_RESPONSES[Rank(LastText(call.args))]
                    /\ \A msgs \in SynthInputs :
                          (msgs # <<>> /\ msgs[Len(msgs)] = call.args[Len(call.args)])
                              => get_sample_response(msgs) = call.ret

\* a last message that matches the words of A and of B, after a message that
\* matches those of C, has been answered with A; so has the single message
\* "Hello!"
C14_Witness ==
    /\ call.done
    /\ call.args = <<SynthMessage(Str("more information")),
                     SynthMessage(Str("help and HELLO"))>>
    /\ call.ret = SAMPLE_RESPONSES[1]
    /\ get_sample_response(<<SynthMessage(Str("Hello!"))>>) = SAMPLE_RESPONSES[1]

-----------------------------------------------------------------------------
(* SpecPlan: PipeResponseGenerator.generate_random_chunks called on a text,   *)
(* with the bounds of the number of chunks and the value secrets.randbelow    *)
(* returns in it.                                                            *)

\* the texts: the canned replies and short ones
PlanTexts ==
    {SAMPLE_RESPONSES[i] : i \in DOMAIN SAMPLE_RESPONSES}
        \cup {"hello", "hi there", "Hello! I'm here", "a", "  ", "a,b", "x_1 is 42",
              "wonderful", "Hi, how are you doing today?", "tab\tnew\nline ", "?!"}

\* min_chunks and max_chunks: 1 <= min_chunks <= max_chunks, or the defaults
PlanLimits ==
    {<<lo, hi>> : lo \in 1..MaxPlanChunks, hi \in 1..MaxPlanChunks} \cup
        {<<MIN_CHUNKS, MAX_CHUNKS>>}

PlanInputs ==
    {[text |-> text, min_chunks |-> m[1], max_chunks |-> m[2], r |-> r] :
        text \in PlanTexts, m \in {x \in PlanLimits : x[1] <= x[2]},
        r \in 0..(MAX_CHUNKS - MIN_CHUNKS)}

InitPlan ==
    /\ Loaded
    /\ call \in {Called("generate_random_chunks", a) :
                    a \in {x \in PlanInputs : x.r <= x.max_chunks - x.min_chunks}}

\* response_generator.generate_random_chunks(text, min_chunks, max_chunks)
\* returns
CallGenerateRandomChunks ==
    /\ call.fn = "generate_random_chunks"
    /\ ~call.done
    /\ call' = [call EXCEPT
                  !.done = TRUE,
                  !.ret = generate_random_chunks(call.args.text, call.args.min_chunks,
                                                 call.args.max_chunks, call.args.r)]
    /\ UNCHANGED outsideCall

NextPlan == CallGenerateRandomChunks

SpecPlan == InitPlan /\ [][NextPlan]_vars

\* the fragments written one after the other
RECURSIVE Concat(_)
Concat(fragments) ==
    IF fragments = <<>> THEN ""
    ELSE Concat(SubSeq(fragments, 1, Len(fragments) - 1)) \o fragments[Len(fragments)]

\* C16: for a non-empty text, 1 <= min_chunks <= max_chunks and any random
\* draw, the fragments generate_random_chunks returns, put together in
\* order, are the text, blanks and punctuation included.
C16_FragmentsRebuildText ==
    (call.done /\ call.fn = "generate_random_chunks")
        => Concat(call.ret) = call.args.text

\* a text with a tab, a newline and a blank at its end has been cut into
\* more than one fragment
C16_Witness ==
    /\ call.done
    /\ call.args.text = "tab\tnew\nline "
    /\ Len(call.ret) > 1

\* the tokens of a text as the claim counts them: every run of word
\* characters, every punctuation character and every run of blanks is one
TokenCount(text) ==
    Cardinality({i \in 1..Len(text) :
        \/ i = 1
        \/ CharClass(Char(text, i)) = "p"
        \/ CharClass(Char(text, i)) # CharClass(Char(text, i - 1))})

\* C17: the number of fragments generate_random_chunks returns lies in
\* [min_chunks, max_chunks], or it is the number of tokens of the text (word
\* runs, punctuation characters, runs of blanks) when that number is less
\* than min_chunks; for a canned reply and the default limits it lies
\* between 5 and 10.
C17_FragmentCount ==
    (call.done /\ call.fn = "generate_random_chunks")
        => LET n == Len(call.ret)
           IN  /\ \/ call.args.min_chunks <= n /\ n <= call.args.max_chunks
                  \/ /\ TokenCount(call.args.text) < call.args.min_chunks
                     /\ n = TokenCount(call.args.text)
               /\ (/\ call.args.text \in {SAMPLE_RESPONSES[i] : i \in 1..4}
                   /\ call.args.min_chunks = MIN_CHUNKS
                   /\ call.args.max_chunks = MAX_CHUNKS)
                     => (MIN_CHUNKS <= n /\ n <= MAX_CHUNKS)

-----------------------------------------------------------------------------
(* The stand-alone server of src/main.py: its own chunk planner and emitter. *)

\* the parts of one token of re.findall(r"\S+|\s+", text): a blank token adds
\* nothing; another adds its word runs and punctuation characters, and one
\* blank unless it equals the last token
MainPartsOf(token, last_token) ==
    IF ~HasNonSpace(token) THEN <<>>
    ELSE FindAll(token) \o (IF token # last_token THEN <<" ">> ELSE <<>>)

\* re.findall(r"\S+|\s+", text): the matches of \w+|[^\w\s]|\s+ with
\* neighbours that are not blank put together
RECURSIVE MainTokens(_, _)
MainTokens(found, sofar) ==
    IF found = <<>> THEN sofar
    ELSE IF sofar # <<>> /\ HasNonSpace(Head(found)) /\ HasNonSpace(sofar[Len(sofar)])
    THEN MainTokens(Tail(found),
                    [sofar EXCEPT ![Len(sofar)] = @ \o Head(found)])
    ELSE MainTokens(Tail(found), Append(sofar, Head(found)))

\* all_parts of main.generate_random_chunks
RECURSIVE MainParts(_, _)
MainParts(tokens, last_token) ==
    IF tokens = <<>> THEN <<>>
    ELSE MainPartsOf(Head(tokens), last_token) \o MainParts(Tail(tokens), last_token)
MainAllParts(tokens) ==
    IF tokens = <<>> THEN <<>> ELSE MainParts(tokens, tokens[Len(tokens)])

\* main.generate_random_chunks; r is what secrets.randbelow returns
main_generate_random_chunks(text, min_chunks, max_chunks, r) ==
    Distribute(MainAllParts(MainTokens(FindAll(text), <<>>)), r + min_chunks)

\* sum(len(msg.get("content", "").split()) for msg in messages)
RECURSIVE MainPromptTokens(_)
MainPromptTokens(msgs) ==
    IF msgs = <<>> THEN 0
    ELSE WordCount(DictGet(Head(msgs).v, "content", Str("")).v)
           + MainPromptTokens(Tail(msgs))

\* final_chunk of main.generate_sse_stream: the finish reason and the usage
MainFinalChunk(g) ==
    ChunkData(g, <<[index |-> 0, delta |-> EmptyMap, finish_reason |-> Str("stop")]>>,
              Usage(MainPromptTokens(g.msgs), WordCount(g.text)))

\* the generator of main.generate_sse_stream once the statements before its
\* loop have run; main.get_sample_response reads the last message as
\* PipeResponseGenerator.get_sample_response reads a dict
MainReplyChunks ==
    [text \in Replies, r \in RunDraws |->
        main_generate_random_chunks(text, MIN_CHUNKS, MAX_CHUNKS, r)]
MainStarted(g, text, r, t, u) ==
    [g EXCEPT !.at = "content", !.text = text,
              !.chunks = IF text \in Replies /\ r \in RunDraws
                         THEN MainReplyChunks[text, r]
                         ELSE main_generate_random_chunks(text, MIN_CHUNKS, MAX_CHUNKS, r),
              !.created = t, !.fingerprint = Fingerprint(u + 1)]
MainFirstYield(h) ==
    IF h.chunks = <<>>
    THEN [g |-> [h EXCEPT !.at = "finish"], out |-> MainFinalChunk(h)]
    ELSE [g |-> [h EXCEPT !.i = 1], out |-> ContentChunk(h, 1)]

\* next() on the generator of main.generate_sse_stream
MainStreamNext(g, r, t, u) ==
    CASE g.at = "new" ->
           MainFirstYield(MainStarted(g, get_sample_response(g.msgs), r, t, u))
      [] g.at = "content" ->
           IF g.i < Len(g.chunks)
           THEN [g |-> [g EXCEPT !.i = @ + 1, !.sleeps = @ + 1],
                 out |-> ContentChunk(g, g.i + 1)]
           ELSE [g |-> [g EXCEPT !.at = "finish"], out |-> MainFinalChunk(g)]
      [] g.at = "finish" -> [g |-> [g EXCEPT !.at = "done"], out |-> DoneLine]
      [] OTHER -> [g |-> [g EXCEPT !.at = "end"], out |-> Null]

-----------------------------------------------------------------------------
(* SpecStream: one streaming connection at a time, event by event.  The      *)
(* request handler is BaseSSERequestHandler of src/http_handler.py or        *)
(* SSERequestHandler of src/main.py; each write of an event may fail because *)
(* the consumer has gone.  conn holds the handler, the generator, the events *)
(* the consumer took, whether wfile is closed, whether a write failed (and   *)
(* the generator as it was then), the status send_error sent (0: none) and   *)
(* the exception that left handle_one_request ("none": none).                *)

Handlers == {"http_handler", "main"}

\* what wfile.write raises when the consumer has gone
WriteErrors == {"BrokenPipeError", "ConnectionResetError", "ConnectionAbortedError"}

StreamMessages ==
    {<<Msg("user", "Hello!")>>,
     <<Msg("user", "hi"), Msg("assistant", "ok"), Msg("user", "I need help")>>,
     <<Msg("user", "thanks")>>}

\* the except clause around wfile.write catches e
CatchesWriteError(handler, e) ==
    IF handler = "http_handler" THEN e \in WriteErrors ELSE e = "BrokenPipeError"

\* what leaves handle_one_request when e is raised under it: the override
\* of BaseSSERequestHandler swallows the connection errors and the
\* ValueError of a closed file; main.SSERequestHandler has no override
Escaping(handler, e) == IF handler = "http_handler" THEN "none" ELSE e

\* the method has returned with wfile closed: handle_one_request of the base
\* class then calls wfile.flush(), which raises ValueError("I/O operation on
\* closed file.")
AfterMethod(handler) == Escaping(handler, "ValueError")

\* next() on the generator of the connection
Advance(c) ==
    IF c.handler = "main" THEN MainStreamNext(c.g, c.r, c.t, c.u)
    ELSE StreamNext(c.g, c.r, c.t, c.u)

\* POST /v1/pipes/run with stream true: the status line and the headers are
\* sent and the generator object is made
StreamOpen ==
    /\ conn.at \in {"none", "ended"}
    /\ uuid + 3 <= MaxRunDraws
    /\ \E handler \in Handlers, msgs \in StreamMessages, r \in RunDraws,
          t \in now..MaxTime :
          /\ conn' = [at |-> "open", handler |-> handler,
                      g |-> NewStream(msgs, CompletionId(uuid + 2)),
                      r |-> r, t |-> t, u |-> uuid + 2,
                      written |-> <<>>, closed |-> FALSE, failed |-> FALSE,
                      gAtFail |-> Null, error_status |-> 0, exc |-> "none"]
          /\ now' = t
    /\ uuid' = uuid + 3
    /\ UNCHANGED outsideStream

\* the loop takes the next event and the consumer takes it
Written(n) ==
    /\ n.out # Null
    /\ conn' = [conn EXCEPT !.g = n.g, !.written = Append(@, n.out)]
    /\ UNCHANGED <<now, uuid, outsideStream>>
StreamWrite == conn.at = "open" /\ Written(Advance(conn))

\* the loop takes the next event and wfile.write raises e: the except clause
\* breaks out of the loop or lets e pass, the finally clause closes wfile
WriteFailed(n, e) ==
    /\ n.out # Null
    /\ conn' = [conn EXCEPT
                  !.g = n.g, !.at = "ended", !.closed = TRUE, !.failed = TRUE,
                  !.gAtFail = n.g,
                  !.exc = IF CatchesWriteError(conn.handler, e)
                          THEN AfterMethod(conn.handler)
                          ELSE Escaping(conn.handler, e)]
    /\ UNCHANGED <<now, uuid, outsideStream>>
StreamWriteFails ==
    /\ conn.at = "open"
    /\ \E e \in WriteErrors : WriteFailed(Advance(conn), e)

\* the generator is exhausted: the loop ends, the finally clause closes wfile
Exhausted(n) ==
    /\ n.out = Null
    /\ conn' = [conn EXCEPT !.g = n.g, !.at = "ended", !.closed = TRUE,
                            !.exc = AfterMethod(conn.handler)]
    /\ UNCHANGED <<now, uuid, outsideStream>>
StreamEndsUnclosed ==
    /\ conn.at = "open"
    /\ Advance(conn).out = Null
    /\ conn' = [conn EXCEPT !.g = Advance(conn).g, !.at = "ended"]
    /\ UNCHANGED <<now, uuid, outsideStream>>
StreamEnds == conn.at = "open" /\ Exhausted(Advance(conn))

NextStream ==
    \/ StreamOpen
    \/ StreamWrite
    \/ StreamWriteFails
    \/ StreamEnds

SpecStream == Init /\ [][NextStream]_vars

\* the loop of the handler goes on: the generator's sleeps end, and a write
\* either is taken or fails
SpecStreamLive ==
    /\ SpecStream
    /\ WF_vars(StreamWrite)
    /\ WF_vars(StreamEnds)

-----------------------------------------------------------------------------
(* Properties of SpecStream *)

\* the fragments planned for the reply of the connection c
Planned(c) ==
    generate_random_chunks(get_sample_response(c.g.msgs), MIN_CHUNKS, MAX_CHUNKS, c.r)

\* the kinds of event
HasOneChoice(e) == "choices" \in DOMAIN e /\ Len(e.choices) = 1
IsRoleAnnounce(e) ==
    /\ HasOneChoice(e)
    /\ DOMAIN e.choices[1].delta = {"role", "content", "refusal"}
    /\ e.choices[1].delta.role = "assistant"
    /\ e.choices[1].delta.content = ""
    /\ e.choices[1].finish_reason = Null
IsContentDelta(e, fragment) ==
    /\ HasOneChoice(e)
    /\ DOMAIN e.choices[1].delta = {"content"}
    /\ e.choices[1].delta.content = fragment
    /\ e.choices[1].finish_reason = Null
IsFinish(e) ==
    /\ HasOneChoice(e)
    /\ DOMAIN e.choices[1].delta = {}
    /\ e.choices[1].finish_reason = Str("stop")
IsUsageSummary(e) ==
    /\ "choices" \in DOMAIN e
    /\ e.choices = <<>>
    /\ e.usage # Null
IsTerminator(e) == e = [object |-> "[DONE]"]

\* e is the event that belongs at place i of a stream with these fragments
InPlace(fragments, i, e) ==
    LET k == Len(fragments)
    IN  CASE i = 1 -> IsRoleAnnounce(e)
          [] i \in 2..(k + 1) -> IsContentDelta(e, fragments[i - 1])
          [] i = k + 2 -> IsFinish(e)
          [] i = k + 3 -> IsUsageSummary(e)
          [] i = k + 4 -> IsTerminator(e)
          [] OTHER -> FALSE

InOrder(fragments, events) ==
    \A i \in 1..Len(events) : InPlace(fragments, i, events[i])

\* C18: what a consumer has taken from a stream of generate_sse_stream is at
\* every moment a beginning of: one role-announce event, one content delta
\* per planned fragment in the order of the plan, one finish event (empty
\* delta, finish_reason "stop"), one usage event (no choices), one
\* "data: [DONE]"; a stream read to its end is all of that and nothing more,
\* and no event before the finish event has a finish_reason.
C18_EventsInOrder ==
    (conn.at \in {"open", "ended"} /\ conn.handler = "http_handler")
        => /\ InOrder(Planned(conn), conn.written)
           /\ (conn.at = "ended" /\ ~conn.failed)
                 => Len(conn.written) = Len(Planned(conn)) + 4

\* a stream of ten fragments has been read to its end
C18_Witness ==
    /\ conn.at = "ended"
    /\ conn.handler = "http_handler"
    /\ ~conn.failed
    /\ Len(Planned(conn)) = 10
    /\ Len(conn.written) = 14

\* C19: once a write of an event has failed because the consumer has gone,
\* the generator is never advanced again (no further event, no further
\* sleep), wfile is closed, no error status is sent and no exception leaves
\* the handling of the request, whichever event the write was of.
C19_DisconnectEndsQuietly ==
    (conn.at \in {"open", "ended"} /\ conn.failed)
        => /\ conn.at = "ended"
           /\ conn.g = conn.gAtFail
           /\ conn.closed
           /\ conn.error_status = 0
           /\ conn.exc = "none"

-----------------------------------------------------------------------------
(* VariableProcessor.substitute_variables (src/variable_processor.py) *)

\* the index of the first character of s at or after i that is not blank,
\* Len(s) + 1 when there is none: what \s* leaves to be matched
RECURSIVE SkipSpaces(_, _)
SkipSpaces(s, i) ==
    IF i <= Len(s) /\ IsSpace(Char(s, i)) THEN SkipSpaces(s, i + 1) ELSE i

\* the index of the first character of s at or after i that is not of \w
RECURSIVE SkipWordChars(_, _)
SkipWordChars(s, i) ==
    IF i <= Len(s) /\ IsWordChar(Char(s, i)) THEN SkipWordChars(s, i + 1) ELSE i

\* the match of \{\{\s*([a-zA-Z_][a-zA-Z0-9_]*)\s*\}\} that begins at
\* content[i]: its last index and its group 1, or no match
NoMatch == [found |-> FALSE]
MatchTail(content, a, b) ==
    IF Slice(content, SkipSpaces(content, b), SkipSpaces(content, b) + 1) = "}}"
    THEN [found |-> TRUE, end |-> SkipSpaces(content, b) + 1,
          group1 |-> SubSeq(content, a, b - 1)]
    ELSE NoMatch
MatchName(content, a) ==
    IF a <= Len(content) /\ (IsLetter(Char(content, a)) \/ Char(content, a) = "_")
    THEN MatchTail(content, a, SkipWordChars(content, a))
    ELSE NoMatch
MatchAt(content, i) ==
    IF Slice(content, i, i + 1) = "{{"
    THEN MatchName(content, SkipSpaces(content, i + 2))
    ELSE NoMatch

\* replace_variable(match): the text that takes the place of the match
ReplaceVariableNoneAsText(variables, var_name, group0) ==
    IF var_name \in DOMAIN variables THEN PyStr(variables[var_name]) ELSE group0
replace_variable(variables, var_name, group0) ==
    IF var_name \in DOMAIN variables
    THEN IF variables[var_name] = Null THEN "" ELSE PyStr(variables[var_name])
    ELSE group0

\* re.sub(pattern, replace_variable, content) from content[i] on: the
\* leftmost match is replaced and the scan goes on behind it
RECURSIVE Sub(_, _, _)
SubStep(content, variables, i, m) ==
    IF m.found
    THEN replace_variable(variables, m.group1, SubSeq(content, i, m.end))
           \o Sub(content, variables, m.end + 1)
    ELSE Char(content, i) \o Sub(content, variables, i + 1)
Sub(content, variables, i) ==
    IF i > Len(content) THEN ""
    ELSE SubStep(content, variables, i, MatchAt(content, i))

\* VariableProcessor.substitute_variables
substitute_variables(content, variables) ==
    IF content = "" \/ DOMAIN variables = {} THEN content
    ELSE Sub(content, variables, 1)

-----------------------------------------------------------------------------
(* SpecSubst: VariableProcessor.substitute_variables called on a content and  *)
(* a dict of variables.                                                      *)

\* the pieces contents are made of
SubstPieces ==
    {"Hi ", "{{name}}", "{{ name\t}}", "{{x}}", "{{", "}}", "{name}", "{{na me}}",
     "{{1a}}", "{{_a1}}", "{", "Hi {{name}} {{x}}"}

RECURSIVE SubstContents(_)
SubstContents(n) ==
    IF n = 0 THEN {""}
    ELSE SubstContents(n - 1)
           \cup {c \o piece : c \in SubstContents(n - 1), piece \in SubstPieces}

\* the dicts of variables
SubstVariables ==
    {EmptyMap,
     [name |-> Str("Bob")],
     [name |-> Null],
     [name |-> Num(4), _a1 |-> Bool(TRUE)],
     [name |-> Str("{{x}}"), x |-> Str("")]}

InitSubst ==
    /\ Loaded
    /\ call \in {Called("substitute_variables", [content |-> c, variables |-> v]) :
                    c \in SubstContents(MaxPieces), v \in SubstVariables}

\* VariableProcessor.substitute_variables(content, variables) returns
CallSubstituteVariables ==
    /\ call.fn = "substitute_variables"
    /\ ~call.done
    /\ call' = [call EXCEPT
                  !.done = TRUE,
                  !.ret = substitute_variables(call.args.content, call.args.variables)]
    /\ UNCHANGED outsideCall

NextSubst == CallSubstituteVariables

SpecSubst == InitSubst /\ [][NextSubst]_vars

\* s is an identifier: a letter or an underscore, then letters, digits and
\* underscores
IsIdentifier(s) ==
    /\ s # ""
    /\ Char(s, 1) \in LetterSet \cup {"_"}
    /\ \A i \in 1..Len(s) : Char(s, i) \in WordSet

\* the places between the braces of s that are not blank
Inside(s) == {i \in 3..(Len(s) - 2) : ~IsSpace(Char(s, i))}

\* what s has between its braces, the blanks on both sides taken off
NameOf(s) ==
    SubSeq(s, CHOOSE i \in Inside(s) : \A k \in Inside(s) : i <= k,
              CHOOSE j \in Inside(s) : \A k \in Inside(s) : k <= j)

\* s is a placeholder: {{, blanks, an identifier, blanks, }}
IsPlaceholder(s) ==
    /\ Slice(s, 1, 2) = "{{"
    /\ Slice(s, Len(s) - 1, Len(s)) = "}}"
    /\ Inside(s) # {}
    /\ IsIdentifier(NameOf(s))

\* the placeholders of text, each by its first and last index
Placeholders(text) ==
    {ij \in {i \in 1..Len(text) : Slice(text, i, i + 1) = "{{"}
              \X {j \in 1..Len(text) : Slice(text, j - 1, j) = "}}"} :
        /\ ij[1] < ij[2]
        /\ IsPlaceholder(SubSeq(text, ij[1], ij[2]))}

\* the string form of a value, the empty string for null
StringForm(value) ==
    CASE value = Null -> ""
      [] value.t = "str" -> value.v
      [] value.t = "bool" -> IF value.v THEN "True" ELSE "False"
      [] value.t = "int" -> SubSeq("0123456789", value.v + 1, value.v + 1)

\* what stands in the result for the character at place p of text, places
\* being the placeholders of text
StandsFor(text, variables, places, p) ==
    LET at == {ij \in places : ij[1] <= p /\ p <= ij[2]}
    IN  IF at = {} THEN Char(text, p)
        ELSE LET ij == CHOOSE ij \in at : TRUE
                 name == NameOf(SubSeq(text, ij[1], ij[2]))
             IN  IF name \notin DOMAIN variables THEN Char(text, p)
                 ELSE IF p = ij[1] THEN StringForm(variables[name])
                 ELSE ""

RECURSIVE SubstitutedFrom(_, _, _, _)
SubstitutedFrom(text, variables, places, p) ==
    IF p > Len(text) THEN ""
    ELSE StandsFor(text, variables, places, p)
           \o SubstitutedFrom(text, variables, places, p + 1)

\* text with its placeholders of known identifiers replaced
Substituted(text, variables) ==
    SubstitutedFrom(text, variables, Placeholders(text), 1)

\* C20: substitute_variables returns the text with every placeholder
\* {{identifier}} (blanks inside the braces allowed) whose identifier is a key
\* of variables replaced by the string form of its value, the empty string
\* for null; a placeholder with another identifier and all text outside the
\* placeholders stay as they are; with no variables the text comes back
\* unchanged.
C20_PlaceholdersReplaced ==
    (call.done /\ call.fn = "substitute_variables")
        => /\ call.ret = Substituted(call.args.content, call.args.variables)
           /\ call.args.variables = EmptyMap => call.ret = call.args.content

\* "Hi {{name}} {{x}}" with name = "Bob" has become "Hi Bob {{x}}", and
\* "Hi {{name}}" with name = null is "Hi "
C20_Witness ==
    /\ call.done
    /\ call.args = [content |-> "Hi {{name}} {{x}}", variables |-> [name |-> Str("Bob")]]
    /\ call.ret = "Hi Bob {{x}}"
    /\ substitute_variables("Hi {{name}}", [name |-> Null]) = "Hi "

-----------------------------------------------------------------------------
(* VariableProcessor.process_messages (src/variable_processor.py).  A Python  *)
(* list or dict is an object: fresh tells whether the object was made by the  *)
(* call or is an object of the caller's.                                      *)

\* processed_message = message.copy(), then the assignment to its content
ProcessedMessage(message, variables) ==
    IF "content" \in DOMAIN message.v /\ message.v["content"].t = "str"
    THEN [fresh |-> TRUE,
          v |-> Dict([message.v EXCEPT
                        !["content"] = Str(substitute_variables(@.v, variables))])]
    ELSE [fresh |-> TRUE, v |-> message]

\* VariableProcessor.process_messages
process_messages(msgs, variables) ==
    IF DOMAIN variables = {}
    THEN [fresh |-> FALSE,
          items |-> [i \in 1..Len(msgs) |-> [fresh |-> FALSE, v |-> msgs[i]]]]
    ELSE [fresh |-> TRUE,
          items |-> [i \in 1..Len(msgs) |-> ProcessedMessage(msgs[i], variables)]]

\* the caller's list after the call: an item of the result that is an object
\* of the caller's shows what was assigned to it
ArgumentAfter(msgs, processed) ==
    [i \in 1..Len(msgs) |->
        IF processed.items[i].fresh THEN msgs[i] ELSE processed.items[i].v]

-----------------------------------------------------------------------------
(* SpecProc: VariableProcessor.process_messages called on a list of messages  *)
(* and a dict of variables.                                                   *)

\* the messages of the lists
ProcMessages ==
    {Dict([role |-> Str("user"), content |-> Str("Hi {{name}}!")]),
     Dict([role |-> Str("assistant"), content |-> Str("{{ name }} {{x}}"),
           name |-> Str("{{name}}")]),
     Dict([role |-> Str("user"), content |-> Str("plain")]),
     Dict([role |-> Str("tool"), content |-> Null]),
     Dict([role |-> Str("user"), content |-> Num(4)]),
     Dict([role |-> Str("user")])}

RECURSIVE ProcLists(_)
ProcLists(n) ==
    IF n = 0 THEN {<<>>}
    ELSE ProcLists(n - 1)
           \cup {Append(q, m) : q \in ProcLists(n - 1), m \in ProcMessages}

InitProc ==
    /\ Loaded
    /\ call \in {Called("process_messages", [messages |-> q, variables |-> v]) :
                    q \in ProcLists(MaxMessages), v \in SubstVariables}

\* VariableProcessor.process_messages(messages, variables) returns
CallProcessMessages ==
    /\ call.fn = "process_messages"
    /\ ~call.done
    /\ call' = [call EXCEPT
                  !.done = TRUE,
                  !.ret = [processed |->
                               process_messages(call.args.messages, call.args.variables),
                           messages |->
                               ArgumentAfter(call.args.messages,
                                   process_messages(call.args.messages,
                                                    call.args.variables))]]
    /\ UNCHANGED outsideCall

NextProc == CallProcessMessages

SpecProc == InitProc /\ [][NextProc]_vars

\* message with its content, when that is a string, substituted
WithContentSubstituted(message, variables) ==
    Dict([k \in DOMAIN message.v |->
            IF k = "content" /\ message.v[k].t = "str"
            THEN Str(Substituted(message.v[k].v, variables))
            ELSE message.v[k]])

\* C21: process_messages returns a new sequence of the same length and order
\* in which each message is a new message with its content, when present and
\* a string, substituted and every other field as in the input; the input
\* sequence and the input messages are as they were, whatever the variables,
\* the empty dict included.
C21_ProcessMessagesCopies ==
    (call.done /\ call.fn = "process_messages")
        => /\ call.ret.processed.fresh
           /\ Len(call.ret.processed.items) = Len(call.args.messages)
           /\ \A i \in 1..Len(call.args.messages) :
                 /\ call.ret.processed.items[i].fresh
                 /\ call.ret.processed.items[i].v
                      = WithContentSubstituted(call.args.messages[i], call.args.variables)
           /\ call.ret.messages = call.args.messages

\* C21 but for the newness of what is returned: the values returned are the
\* substituted messages, in order, and the input is as it was
C21_ValuesSubstituted ==
    (call.done /\ call.fn = "process_messages")
        => /\ Len(call.ret.processed.items) = Len(call.args.messages)
           /\ \A i \in 1..Len(call.args.messages) :
                 call.ret.processed.items[i].v
                   = WithContentSubstituted(call.args.messages[i], call.args.variables)
           /\ call.ret.messages = call.args.messages
           /\ DOMAIN call.args.variables # {}
                => /\ call.ret.processed.fresh
                   /\ \A i \in 1..Len(call.args.messages) :
                         call.ret.processed.items[i].fresh

-----------------------------------------------------------------------------
(* Properties of Spec: the status line of the thread operations *)

\* the status follows from the operation and the exception its handler raised
StatusByException ==
    (last.op # "none")
        => /\ last.exc = "none" => last.status = (IF last.op = "create" THEN 201 ELSE 200)
           /\ last.exc = "ThreadNotFoundError" => last.status = 404
           /\ last.exc = "ThreadConflictError" => last.status = 409
           /\ last.exc = "InvalidRequestError" => last.status = 400
           /\ last.status \in {200, 201} => last.exc = "none"

\* the request is invalid: an append without a non-empty list of messages, an
\* update whose patch is no mapping, a batch with a message that lacks a role
InvalidInput(l) ==
    \/ RefusedFirst(l)
    \/ l.op \in {"append", "create"} /\ SomeLacksRole(l.request)

\* C22: every thread operation is answered with one status: 201 for a
\* successful create, 200 for every other success, 404 for NotFound, 409 for
\* Conflict, 400 for InvalidRequest; an invalid request is never answered
\* with 500 or with a success, and neither is a NotFound or a Conflict.
C22_OneStatusPerOutcome ==
    (last.op # "none")
        => /\ StatusByException
           /\ last.status # NoResponse
           /\ InvalidInput(last) => last.status \notin {200, 201, 500}

-----------------------------------------------------------------------------
(* The body of a request as it comes in (src/http_handler.py).  A body on    *)
(* the wire is kept as [empty, json]: empty tells that Content-Length is 0   *)
(* or missing, json is the value json.loads makes of the bytes, Absent when  *)
(* it raises JSONDecodeError.                                                *)

NoBody == [empty |-> TRUE, json |-> Absent]
NotJson == [empty |-> FALSE, json |-> Absent]         \* such as {"messages": [
Sent(value) == [empty |-> FALSE, json |-> value]

\* BaseSSERequestHandler._parse_request_body: the exception it raises, or the
\* value it returns
parse_request_body(wire, allow_empty) ==
    IF wire.empty /\ ~allow_empty THEN [exc |-> "ValueError", ret |-> Null]
    ELSE IF wire.empty THEN [exc |-> "none", ret |-> Dict(EmptyMap)]
    ELSE IF wire.json = Absent THEN [exc |-> "JSONDecodeError", ret |-> Null]
    ELSE [exc |-> "none", ret |-> wire.json]

\* request_data.get(...) as the first statement of a handler: only a dict has
\* the method
Parsed(S, p) ==
    IF p.exc # "none" THEN Raise(S, p.exc)
    ELSE IF ~IsDict(p.ret) THEN Raise(S, "AttributeError")
    ELSE Return(S, p.ret.v)

\* the try block of _handle_create_thread
TryCreateThread(S, p, clock) ==
    IF p.exc # "none" THEN p ELSE handle_create_thread(S, p.ret, clock)

\* the try block of _handle_append_messages
TryAppendMessages(S, thread_id, p, clock) ==
    IF p.exc # "none" THEN p ELSE handle_append_messages(S, thread_id, p.ret, clock)

\* the try block of _handle_update_thread
TryUpdateThread(S, thread_id, p) ==
    IF p.exc # "none" THEN p ELSE handle_update_thread(S, thread_id, p.ret)

\* json.JSONDecodeError is a subclass of ValueError
IsValueError(exc) == exc \in {"ValueError", "JSONDecodeError"}

\* the except clauses of _handle_run_pipe for an exception of the parse or of
\* request_data.get: no clause names json.JSONDecodeError
StatusRunPipe(exc) ==
    CASE exc = "InvalidPipeRequestError" -> 400
      [] IsValueError(exc) \/ exc \in {"KeyError", "TypeError"} -> 500
      [] OTHER -> NoResponse

\* what _handle_run_pipe sends when the body could not be read as a dict
Unread(exc, u) ==
    [status |-> StatusRunPipe(exc), uuid |-> u,
     headers |-> ("Content-Type" :> "text/html;charset=utf-8"),
     body |-> Null, events |-> <<>>]

-----------------------------------------------------------------------------
(* SpecBody: the POST requests with their bodies as they come in, one        *)
(* request at a time.                                                        *)

\* bodies that are not a JSON object
BadBodies == {NotJson, Sent(List(<<Num(1)>>)), Sent(Null)}

BodyCreateBodies ==
    {NoBody} \cup BadBodies
      \cup {Sent(Dict(Body(GivenId(1), MetaMap, List(<<MsgUser>>))))}
BodyAppendBodies ==
    {NoBody} \cup BadBodies \cup {Sent(Dict(Body(Absent, Absent, List(<<MsgUser>>))))}
BodyUpdateBodies ==
    {NoBody} \cup BadBodies \cup {Sent(Dict(Body(Absent, MetaMap, Absent)))}
BodyRunBodies ==
    {NoBody} \cup BadBodies
      \cup {Sent(Dict(RunBody(List(<<Msg("user", "Hello!")>>), Absent, Absent)))}

\* the decoded body of a wire body that is a JSON object, {} otherwise
Decoded(wire) ==
    IF wire.json # Absent /\ IsDict(wire.json) THEN wire.json.v ELSE EmptyMap

\* the uuid4 values and the clock values a create or an append draws
BodyDraws(wire) == Draws(Decoded(wire))

\* what the next n calls of int(time.time()) return: in SpecBody the requests
\* come within one second
BodyClocks(n) == {[i \in 1..n |-> now]}

\* POST /v1/threads
BodyCreateThread ==
    \E wire \in BodyCreateBodies :
        /\ uuid + IdDraw(Decoded(wire)) + BodyDraws(wire) <= MaxBodyDraws
        /\ \E clock \in BodyClocks(1 + BodyDraws(wire)) :
              LET o == TryCreateThread(Store,
                           Parsed(Store, parse_request_body(wire, TRUE)), clock)
                  tid == DictGet(Decoded(wire), "threadId", ThreadUuid(uuid + 1))
              IN  Served("create", tid, wire, o, StatusCreateThread(o.exc))

\* POST /v1/threads/{id}/messages
BodyAppendMessages ==
    \E thread_id \in PathIds, wire \in BodyAppendBodies :
        /\ uuid + BodyDraws(wire) <= MaxBodyDraws
        /\ \E clock \in BodyClocks(BodyDraws(wire)) :
              LET o == TryAppendMessages(Store, thread_id,
                           Parsed(Store, parse_request_body(wire, FALSE)), clock)
              IN  Served("append", thread_id, wire, o, StatusAppendMessages(o.exc))

\* POST /v1/threads/{id}
BodyUpdateThread ==
    \E thread_id \in PathIds, wire \in BodyUpdateBodies :
        LET o == TryUpdateThread(Store, thread_id,
                     Parsed(Store, parse_request_body(wire, FALSE)))
        IN  Served("update", thread_id, wire, o, StatusUpdateThread(o.exc))

\* the response of _handle_run_pipe to a body on the wire
RunPipeOn(p, u, t, r) ==
    IF p.exc # "none" THEN Unread(p.exc, u) ELSE RunPipeResponse(p.ret, u, t, r)

\* the run request is served: the store is not touched, uuid4 values are drawn
RunServed(wire, exc, response) ==
    Served("run", Null, wire,
           [S |-> [Store EXCEPT !.uuid = response.uuid], exc |-> exc,
            ret |-> response.body],
           response.status)

\* POST /v1/pipes/run
BodyRunPipe ==
    \E wire \in BodyRunBodies :
        /\ Truthy(DictGet(Decoded(wire), "messages", List(<<>>)))
              => uuid + 3 <= MaxBodyDraws
        /\ \E r \in ChunkDraws(handle_run_pipe(Decoded(wire), uuid, now)) :
              RunServed(wire, Parsed(Store, parse_request_body(wire, FALSE)).exc,
                        RunPipeOn(Parsed(Store, parse_request_body(wire, FALSE)),
                                  uuid, now, r))

NextBody ==
    \/ BodyCreateThread
    \/ BodyAppendMessages
    \/ BodyUpdateThread
    \/ BodyRunPipe

SpecBody == Init /\ [][NextBody]_vars

\* the body is malformed: none where one is required, no JSON, or JSON that
\* is not an object
Malformed(wire, required) ==
    \/ wire.empty /\ required
    \/ ~wire.empty /\ (wire.json = Absent \/ ~IsDict(wire.json))

\* C23: a create, append, update or run request whose body is malformed
\* (absent where one is required, no JSON, or JSON that is no object) is
\* answered with status 400, never with 500 and never left unanswered, and
\* it leaves the store as it was.
C23_MalformedBodyIs400 ==
    [][(last' # last /\ Malformed(last'.request, last'.op # "create"))
         => /\ last'.status = 400
            /\ threads' = threads /\ messages' = messages]_vars

\* the store is unchanged by a request with a malformed body
MalformedLeavesStore ==
    [][(last' # last /\ Malformed(last'.request, last'.op # "create"))
          => threads' = threads /\ messages' = messages]_vars

-----------------------------------------------------------------------------
(* SpecServe: the server that run_server of src/main.py starts,              *)
(* HTTPServer(server_address, SSERequestHandler).serve_forever().  HTTPServer *)
(* is socketserver.TCPServer: serve_forever takes one connection off the      *)
(* listen queue, runs the request handler on it in the calling thread until   *)
(* the handler returns, and only then takes the next one.  srv holds the      *)
(* requests waiting in the listen queue, the request the loop is busy with,   *)
(* whether its generator is in time.sleep(CHUNK_DELAY_SECONDS), the last      *)
(* response that was completed and how many requests have arrived; conn is    *)
(* the streaming connection.                                                  *)

Health == [method |-> "GET", path |-> "/health"]
RunStream == [method |-> "POST", path |-> "/v1/pipes/run",
              body |-> RunBody(List(<<Msg("user", "Hello!")>>), Bool(TRUE), Absent)]
ServeRequests == {Health, RunStream}

\* the draws of the chunk planner the streams of SpecServe get
ServeDraws == {0, MAX_CHUNKS - MIN_CHUNKS}

\* run_server: the socket listens, serve_forever waits in select
ServerStarts ==
    /\ srv.at = "down"
    /\ srv' = [at |-> "up", backlog |-> <<>>, busy |-> Null, sleeping |-> FALSE,
               response |-> Null, arrivals |-> 0]
    /\ UNCHANGED <<now, uuid, conn, outsideServe>>

\* a client connects and sends its request: the kernel queues the connection
Arrives ==
    /\ srv.at = "up"
    /\ srv.arrivals < MaxArrivals
    /\ \E request \in ServeRequests :
          srv' = [srv EXCEPT !.backlog = Append(@, request), !.arrivals = @ + 1]
    /\ UNCHANGED <<now, uuid, conn, outsideServe>>

\* serve_forever takes the connection at the head of the queue; do_GET
\* answers /health before the handler returns
ServeHealth ==
    /\ srv.at = "up"
    /\ srv.busy = Null
    /\ srv.backlog # <<>>
    /\ Head(srv.backlog) = Health
    /\ \E t \in now..MaxTime :
          /\ now' = t
          /\ srv' = [srv EXCEPT
                       !.backlog = Tail(@),
                       !.response = [request |-> Health, status |-> 200,
                                     body |-> [status |-> "healthy", timestamp |-> t],
                                     during_sleep |-> srv.sleeping]]
    /\ UNCHANGED <<uuid, conn, outsideServe>>

\* serve_forever takes the connection at the head of the queue; handle_run_pipe
\* sends the status line and the headers and makes the generator
ServeStreamOpens ==
    /\ srv.at = "up"
    /\ srv.busy = Null
    /\ srv.backlog # <<>>
    /\ Head(srv.backlog) = RunStream
    /\ uuid + 3 <= MaxRunDraws
    /\ \E r \in ServeDraws, t \in now..MaxTime :
          /\ conn' = [at |-> "open", handler |-> "main",
                      g |-> NewStream(RunStream.body["messages"].v, CompletionId(uuid + 2)),
                      r |-> r, t |-> t, u |-> uuid + 2,
                      written |-> <<>>, closed |-> FALSE, failed |-> FALSE,
                      gAtFail |-> Null, error_status |-> 0, exc |-> "none"]
          /\ now' = t
    /\ uuid' = uuid + 3
    /\ srv' = [srv EXCEPT !.backlog = Tail(@), !.busy = RunStream]
    /\ UNCHANGED outsideServe

\* next() on the generator will call time.sleep before its next yield
SleepsFirst(n) == n.g.sleeps > conn.g.sleeps

\* the generator is resumed and enters time.sleep(CHUNK_DELAY_SECONDS)
ServeStreamSleeps ==
    /\ srv.at = "up"
    /\ srv.busy = RunStream
    /\ ~srv.sleeping
    /\ SleepsFirst(Advance(conn))
    /\ srv' = [srv EXCEPT !.sleeping = TRUE]
    /\ UNCHANGED <<now, uuid, conn, outsideServe>>

\* the generator yields its next event (after its sleep, if it has one) and
\* the loop writes it
ServeWrote(n) ==
    /\ n.out # Null
    /\ srv.sleeping = SleepsFirst(n)
    /\ conn' = [conn EXCEPT !.g = n.g, !.written = Append(@, n.out)]
    /\ srv' = [srv EXCEPT !.sleeping = FALSE]
    /\ UNCHANGED <<now, uuid, outsideServe>>
ServeStreamWrites ==
    /\ srv.at = "up"
    /\ srv.busy = RunStream
    /\ ServeWrote(Advance(conn))

\* the generator is exhausted: wfile is closed, the handler returns and
\* serve_forever goes back to select
ServeEnded(n) ==
    /\ n.out = Null
    /\ conn' = [conn EXCEPT !.g = n.g, !.at = "ended", !.closed = TRUE,
                            !.exc = AfterMethod(conn.handler)]
    /\ srv' = [srv EXCEPT !.busy = Null,
                          !.response = [request |-> RunStream, status |-> 200,
                                        body |-> Null, during_sleep |-> FALSE]]
    /\ UNCHANGED <<now, uuid, outsideServe>>
ServeStreamEnds ==
    /\ srv.at = "up"
    /\ srv.busy = RunStream
    /\ ServeEnded(Advance(conn))

NextServe ==
    \/ ServerStarts
    \/ Arrives
    \/ ServeHealth
    \/ ServeStreamOpens
    \/ ServeStreamSleeps
    \/ ServeStreamWrites
    \/ ServeStreamEnds

SpecServe == Init /\ [][NextServe]_vars

\* the request at the head of the listen queue is served
ServeWaiting == ServeHealth \/ ServeStreamOpens

\* C24: whenever a streaming request is suspended in the delay between two
\* chunks and another request waits, that request can be served: the delay
\* keeps no other request from being handled.
C24_DelayBlocksNoRequest ==
    (srv.at = "up" /\ srv.sleeping /\ srv.backlog # <<>>) => ENABLED ServeWaiting

-----------------------------------------------------------------------------
(* Properties of SpecStreamLive *)

\* "data: [DONE]" is the last thing the consumer took, if it took it at all
DoneComesLast ==
    \A i \in 1..Len(conn.written) :
        conn.written[i] = DoneLine => i = Len(conn.written)

\* the stream has ended with its terminator delivered
DoneDelivered ==
    /\ conn.written # <<>>
    /\ conn.written[Len(conn.written)] = DoneLine

\* C25: a streaming connection always comes to its end; unless a write failed
\* because the consumer went away, "data: [DONE]" has then been delivered;
\* nothing is written after the terminator, and at the end wfile is closed,
\* also when the stream ended early.
C25_StreamEndsAndCloses ==
    /\ [](conn.at \in {"open", "ended"} => DoneComesLast)
    /\ [](conn.at = "ended"
            => /\ conn.closed
               /\ ~conn.failed => DoneDelivered)
    /\ (conn.at = "open") ~> (conn.at = "ended")

\* a stream of the server of main.py was read to its terminator and closed,
\* after an earlier stream had ended early
C25_Witness ==
    /\ conn.at = "ended"
    /\ conn.handler = "main"
    /\ ~conn.failed
    /\ conn.closed
    /\ DoneDelivered
    /\ uuid > 3

-----------------------------------------------------------------------------
(* Properties of Spec: batches, logs and metadata *)

\* the request just served failed in _create_message_data, on a message
\* without a role
FailedOnRole(l) == l.op \in {"append", "create"} /\ l.exc = "ValueError"

\* C27: if appendMessages, or createThread with initial messages, fails
\* because a message of the batch lacks a role, the store is unchanged: none
\* of the batch's earlier valid messages is stored, and createThread leaves
\* no thread record and no message log under the requested id.
C27_FailedBatchLeavesStore ==
    [][FailedOnRole(last') => (threads' = threads /\ messages' = messages)]_vars

\* the log was before what it begins with now
IsPrefix(before, after) ==
    /\ Len(before) <= Len(after)
    /\ SubSeq(after, 1, Len(before)) = before

\* the step removes none of the logs it finds in the store
KeepsLogs == DOMAIN messages \subseteq DOMAIN messages'

\* the created_at values of a log do not decrease along it
CreatedInOrder(log) ==
    \A i \in 1..(Len(log) - 1) : log[i].created_at <= log[i + 1].created_at

\* C28: a thread's message log is append-only: across the store operations
\* that do not delete the thread, every earlier state of the log is a prefix
\* of every later one, so no stored message is removed, reordered or
\* modified; and the createdAt values do not decrease in log order.
C28_LogAppendOnly ==
    /\ [][\A thread_id \in DOMAIN messages \cap DOMAIN messages' :
            IsPrefix(messages[thread_id], messages'[thread_id])]_vars
    /\ [](\A thread_id \in DOMAIN messages : CreatedInOrder(messages[thread_id]))

\* an append has added to a log that held a message already, at a later time
C28_Witness ==
    /\ last.op = "append"
    /\ last.status = 200
    /\ last.len_before >= 1
    /\ Len(messages[last.thread_id]) > last.len_before
    /\ messages[last.thread_id][1].created_at
         < messages[last.thread_id][Len(messages[last.thread_id])].created_at

\* the request is an update with a patch that is a mapping
MappingPatch(l) ==
    /\ l.op = "update"
    /\ "metadata" \in DOMAIN l.request
    /\ IsDict(l.request["metadata"])

\* C30: in every reachable state the metadata of every stored thread is a
\* mapping, whatever the metadata field of the createThread and updateThread
\* requests carried, and so updateThread with a mapping patch never fails on
\* an existing thread.
C30_MetadataIsMapping ==
    /\ [](\A thread_id \in DOMAIN threads : IsDict(threads[thread_id].metadata))
    /\ [][(MappingPatch(last') /\ last'.thread_id \in DOMAIN threads)
            => last'.status = 200]_vars

\* the request is an update with a patch that is no mapping
BadPatch(l) ==
    /\ l.op = "update"
    /\ "metadata" \in DOMAIN l.request
    /\ ~IsDict(l.request["metadata"])

\* C31: updateThread with a metadata patch that is not a mapping fails with
\* InvalidRequest (400) and leaves the thread's metadata and the rest of the
\* store unchanged, whether or not the thread exists.
C31_BadPatchRefused ==
    [][BadPatch(last')
         => /\ last'.exc = "InvalidRequestError"
            /\ last'.status = 400
            /\ threads' = threads
            /\ messages' = messages]_vars

\* a patch that is a list has been refused for a thread that is stored with
\* a message
C31_Witness ==
    /\ BadPatch(last)
    /\ last.status = 400
    /\ last.thread_id \in DOMAIN threads
    /\ messages[last.thread_id] # <<>>

-----------------------------------------------------------------------------
(* SpecVars: POST /v1/pipes/run with a variables field.  handle_run_pipe     *)
(* reads the keys messages, stream and threadId of the request and no other. *)

\* the contents of the last message and the variables of the requests
VarContents == {"{{g}}", "{{ g }} there", "plain words", "{{q}} please"}
VarVariables ==
    {EmptyMap,
     [g |-> Str("hello")],
     [g |-> Str("bye"), q |-> Str("I have a question")]}

\* a decoded run request with a variables field
VarBody(content, stream, variables) ==
    RunBody(List(<<Msg("user", content)>>), stream, Absent)
        @@ ("variables" :> Dict(variables))
VarRequests ==
    {VarBody(c, st, v) :
        c \in VarContents, st \in {Absent, Bool(TRUE)}, v \in VarVariables}

\* POST /v1/pipes/run
HandleRunPipeVariables ==
    \E request \in VarRequests :
        /\ uuid + 3 <= MaxRunDraws
        /\ \E t \in ClockDraws(handle_run_pipe(request, uuid, now)),
               r \in ChunkDraws(handle_run_pipe(request, uuid, now)) :
              /\ now' = t
              /\ Ran(request, RunPipeResponse(request, uuid, t, r))

NextVars == HandleRunPipeVariables

SpecVars == Init /\ [][NextVars]_vars

\* the text an event of a stream carries
DeltaContent(event) ==
    IF /\ "choices" \in DOMAIN event
       /\ event.choices # <<>>
       /\ "content" \in DOMAIN event.choices[1].delta
    THEN event.choices[1].delta.content
    ELSE ""

\* the reply of the response just sent: the completion of the body, or the
\* texts of the events put together
RepliedText ==
    IF run.response.events = <<>>
    THEN run.response.body.completion
    ELSE Concat([i \in 1..Len(run.response.events) |->
                    DeltaContent(run.response.events[i])])

\* the messages of the request as process_messages returns them
MessagesSubstituted(request) ==
    LET processed == process_messages(request["messages"].v,
                                      request["variables"].v)
    IN  [i \in 1..Len(processed.items) |-> processed.items[i].v]

\* C26: when a run request supplies variables, the reply is the one for the
\* messages after {{placeholder}} substitution, in streaming and in
\* non-streaming mode: content "{{g}}" with variables {g: "hello"} gets the
\* greeting.
C26_ReplyFromSubstitutedMessages ==
    (run.response.status = 200 /\ "variables" \in DOMAIN run.request)
        => RepliedText = get_sample_response(MessagesSubstituted(run.request))

\* the requests whose variables change nothing get the reply of their
\* messages as they are
C26_ReplyFromMessagesAsSent ==
    (run.response.status = 200 /\ "variables" \in DOMAIN run.request)
        => RepliedText = get_sample_response(run.request["messages"].v)

-----------------------------------------------------------------------------
(* SpecLogs: threads are created under two supplied ids or a generated one,  *)
(* with or without messages, messages are appended and threads deleted, one  *)
(* request at a time; the clock stands still.                                *)

LogIds == {GivenId(1), GivenId(2)}
LogBatches == {List(q) : q \in GoodBatches \cup BadBatches}
LogCreateBodies ==
    {Body(i, Absent, b) : i \in LogIds \cup {Absent}, b \in {Absent} \cup LogBatches}
LogAppendBodies == {Body(Absent, Absent, b) : b \in LogBatches}

\* POST /v1/threads
LogsCreateThread ==
    \E body \in LogCreateBodies :
        /\ uuid + IdDraw(body) + Draws(body) <= MaxLogDraws
        /\ \E clock \in BodyClocks(1 + Draws(body)) :
              LET o == handle_create_thread(Store, body, clock)
                  tid == IF "threadId" \in DOMAIN body
                         THEN body["threadId"] ELSE ThreadUuid(uuid + 1)
              IN  Served("create", tid, body, o, StatusCreateThread(o.exc))

\* POST /v1/threads/{id}/messages
LogsAppendMessages ==
    \E thread_id \in LogIds \cup DOMAIN threads, body \in LogAppendBodies :
        /\ uuid + Draws(body) <= MaxLogDraws
        /\ \E clock \in BodyClocks(Draws(body)) :
              LET o == handle_append_messages(Store, thread_id, body, clock)
              IN  Served("append", thread_id, body, o, StatusAppendMessages(o.exc))

\* DELETE /v1/threads/{id}
LogsDeleteThread ==
    \E thread_id \in LogIds \cup DOMAIN threads :
        LET o == handle_delete_thread(Store, thread_id)
        IN  Served("delete", thread_id, <<>>, o, StatusRead(o.exc))

NextLogs ==
    \/ LogsCreateThread
    \/ LogsAppendMessages
    \/ LogsDeleteThread

SpecLogs == Init /\ [][NextLogs]_vars

\* where the stored messages are: the log and the place in it
StoredMessages ==
    UNION {{<<thread_id, i>> : i \in 1..Len(messages[thread_id])} :
              thread_id \in DOMAIN messages}
MessageAt(p) == messages[p[1]][p[2]]

\* C29: in every reachable state no two stored messages, of one thread or of
\* two, have the same id, and the threadId of every stored message is the id
\* of the thread whose log holds it.
C29_MessagesOwnedOnce ==
    /\ \A p, q \in StoredMessages : p # q => MessageAt(p).id # MessageAt(q).id
    /\ \A p \in StoredMessages : MessageAt(p).thread_id = p[1]

\* two threads hold messages, one of them two
C29_Witness ==
    \E p, q \in StoredMessages : p[1] # q[1] /\ p[2] = 2

-----------------------------------------------------------------------------
(* SpecMeta: a caller in the process of the store (as src/test_threads_crud  *)
(* is) calls ThreadHandler and holds one dict object, which it passes as the *)
(* metadata of the threads it creates or leaves out for a dict of the        *)
(* request's own.  create_thread stores `metadata or {}`: the object passed, *)
(* not a copy of it, when it is not empty.  update_thread calls .update on   *)
(* the object stored.  meta.value is what the caller's object holds and      *)
(* meta.in the threads whose stored metadata is that object; the clock       *)
(* stands still.                                                             *)

\* the metadata of the create requests: the caller's object or a dict made
\* for the request
OwnDict == Dict([topic |-> Str("testing")])
MetaPatches == {Dict([status |-> Str("active")])}

\* the threads storing the caller's object once the call has returned
SharingAfter(op, thread_id, passed, o) ==
    IF op = "create" /\ o.exc = "none" /\ passed /\ Truthy(Dict(meta.value))
    THEN meta.in \cup {thread_id}
    ELSE IF op = "delete" /\ o.exc = "none"
    THEN meta.in \ {thread_id}
    ELSE meta.in

\* what the caller's object holds once the call has returned: update_thread
\* on a thread that stores it has changed it in place
ValueAfter(op, thread_id, o) ==
    IF op = "update" /\ o.exc = "none" /\ thread_id \in meta.in
    THEN o.S.threads[thread_id].metadata.v
    ELSE meta.value

\* the call has returned or raised: every thread that stores the caller's
\* object shows what the object holds
MetaServed(op, thread_id, body, passed, o, status) ==
    /\ meta' = [value |-> ValueAfter(op, thread_id, o),
                in |-> SharingAfter(op, thread_id, passed, o)]
    /\ threads' = [t \in DOMAIN o.S.threads |->
                     IF t \in meta'.in
                     THEN [o.S.threads[t] EXCEPT !.metadata = Dict(meta'.value)]
                     ELSE o.S.threads[t]]
    /\ messages' = o.S.messages
    /\ uuid' = o.S.uuid
    /\ now' = o.S.now
    /\ last' = [op |-> op, thread_id |-> thread_id, request |-> body,
                len_before |-> Len(DictGet(messages, thread_id, <<>>)),
                exc |-> o.exc, status |-> status,
                body |-> IF o.exc = "none" THEN o.ret ELSE Null]
    /\ UNCHANGED outsideMeta

\* thread_handler.handle_create_thread
MetaCreateThread ==
    \E i \in LogIds, passed \in BOOLEAN :
        LET body == Body(i, IF passed THEN Dict(meta.value) ELSE OwnDict, Absent)
        IN  /\ uuid + Draws(body) <= MaxLogDraws
            /\ \E clock \in BodyClocks(1 + Draws(body)) :
                  LET o == handle_create_thread(Store, body, clock)
                  IN  MetaServed("create", i, body, passed, o,
                                 StatusCreateThread(o.exc))

\* thread_handler.handle_append_messages
MetaAppendMessages ==
    \E thread_id \in LogIds :
        LET body == Body(Absent, Absent, List(<<MsgUser>>))
        IN  /\ uuid + Draws(body) <= MaxLogDraws
            /\ \E clock \in BodyClocks(Draws(body)) :
                  LET o == handle_append_messages(Store, thread_id, body, clock)
                  IN  MetaServed("append", thread_id, body, FALSE, o,
                                 StatusAppendMessages(o.exc))

\* thread_handler.handle_update_thread
MetaUpdateThread ==
    \E thread_id \in LogIds, patch \in MetaPatches :
        LET body == Body(Absent, patch, Absent)
            o == handle_update_thread(Store, thread_id, body)
        IN  MetaServed("update", thread_id, body, FALSE, o, StatusUpdateThread(o.exc))

\* thread_handler.handle_get_thread
MetaGetThread ==
    \E thread_id \in LogIds :
        LET o == handle_get_thread(Store, thread_id)
        IN  MetaServed("get", thread_id, <<>>, FALSE, o, StatusRead(o.exc))

\* thread_handler.handle_list_messages
MetaListMessages ==
    \E thread_id \in LogIds :
        LET o == handle_list_messages(Store, thread_id)
        IN  MetaServed("list", thread_id, <<>>, FALSE, o, StatusRead(o.exc))

\* thread_handler.handle_delete_thread
MetaDeleteThread ==
    \E thread_id \in LogIds :
        LET o == handle_delete_thread(Store, thread_id)
        IN  MetaServed("delete", thread_id, <<>>, FALSE, o, StatusRead(o.exc))

NextMeta ==
    \/ MetaCreateThread
    \/ MetaAppendMessages
    \/ MetaUpdateThread
    \/ MetaGetThread
    \/ MetaListMessages
    \/ MetaDeleteThread

SpecMeta == Init /\ [][NextMeta]_vars

\* the step leaves id and created_at of the thread as they were
KeepsIdAndCreatedAt(thread_id) ==
    (thread_id \in DOMAIN threads /\ thread_id \in DOMAIN threads')
        => /\ threads'[thread_id].id = threads[thread_id].id
           /\ threads'[thread_id].created_at = threads[thread_id].created_at

\* the step leaves the record and the log of every other thread as they were
KeepsOthers(thread_id) ==
    \A other \in DOMAIN threads \ {thread_id} :
        /\ other \in DOMAIN threads'
        /\ threads'[other] = threads[other]
        /\ other \in DOMAIN messages'
        /\ messages'[other] = messages[other]

\* the operations change only what they name
ChangesWhatItNames(l) ==
    /\ l.op = "append" => threads' = threads
    /\ l.op = "update" => (KeepsIdAndCreatedAt(l.thread_id) /\ messages' = messages)
    /\ l.op \in {"get", "list"} => (threads' = threads /\ messages' = messages)
    /\ KeepsOthers(l.thread_id)

\* C32: appendMessages leaves the thread's id, createdAt and metadata
\* unchanged; updateThread leaves the thread's id, createdAt and message log
\* unchanged; getThread and listMessages change nothing; and every operation
\* on thread id A leaves the record and message log of every other thread B
\* unchanged.
C32_OperationsChangeWhatTheyName ==
    [][ChangesWhatItNames(last')]_vars

\* the same of the requests that come over HTTP, where every body is decoded
\* into objects of its own
C32_RequestsChangeWhatTheyName ==
    [][last'.op # "none" => ChangesWhatItNames(last')]_vars

-----------------------------------------------------------------------------
(* SpecGate: the store is filled by create requests, then one run request is *)
(* served: answered at once, or streamed event by event to a consumer that   *)
(* takes every event or goes away.                                           *)

StoreFilling == run = NoRun /\ conn = NoConn

NextGate ==
    \/ StoreFilling /\ uuid = 0 /\ LogsCreateThread
    \/ StoreFilling /\ HandleRunPipe
    \/ StoreFilling /\ StreamOpen
    \/ StreamWrite
    \/ StreamWriteFails
    \/ StreamEnds

SpecGate == Init /\ [][NextGate]_vars

\* a step of a run: the request is answered, or the stream of one is opened,
\* advanced, broken or ended
RunStep == run' # run \/ conn' # conn

\* C33: a run leaves the set of threads and every message log as they were,
\* streaming or not, completed or disconnected, and a run with messages
\* succeeds whether or not its threadId names a stored thread.
C33_RunLeavesStore ==
    /\ [][RunStep => threads' = threads /\ messages' = messages]_vars
    /\ [](Answered /\ Truthy(DictGet(run.request, "messages", List(<<>>)))
            => run.response.status = 200)

\* a run succeeded under a threadId that names no stored thread while the
\* store holds another thread with messages
C33_Witness ==
    /\ run.response.status = 200
    /\ "threadId" \in DOMAIN run.request
    /\ run.request["threadId"] \notin DOMAIN threads
    /\ \E thread_id \in DOMAIN threads : messages[thread_id] # <<>>

\* a stream was cut by the consumer while the store holds a thread
C33_WitnessDisconnected ==
    /\ conn.at = "ended"
    /\ conn.failed
    /\ threads # <<>>

-----------------------------------------------------------------------------
(* SpecOdd: get_sample_response of src/pipes.py and of src/main.py called on *)
(* lists whose last message is unusual: its content is missing, null, a      *)
(* list, a dict or a bool, or the message itself is a list, a string or null *)
(* in place of a dict.  call.ret holds the reply, or the name of the         *)
(* exception the call raised.                                                *)

\* get_sample_response of src/main.py: messages[-1].get("content", "").lower()
\* with no except clause around it
main_get_sample_response(msgs) ==
    IF msgs = <<>> THEN SAMPLE_RESPONSES[1]
    ELSE IF ~IsDict(msgs[Len(msgs)]) THEN "AttributeError"
    ELSE LET content == DictGet(msgs[Len(msgs)].v, "content", Str(""))
         IN  IF content.t = "str" THEN ReplyFor(Lower(content.v))
             ELSE "AttributeError"

\* contents that are no plain string, with text nested inside
OddContents ==
    {Absent, Null, Bool(TRUE), List(<<>>), List(<<Str("hello")>>),
     List(<<Dict([type |-> Str("text"), text |-> Str("I need help")])>>),
     Dict([text |-> Str("tell me")])}

\* messages that are no dict
OddShapes ==
    {List(<<Dict([role |-> Str("user"), content |-> Str("hello")])>>),
     List(<<Dict([role |-> Str("user"), content |-> Null])>>),
     List(<<Str("I need help")>>), List(<<>>), Str("tell me"), Null}

OddMessages == {SynthMessage(c) : c \in OddContents} \cup OddShapes

\* an unusual message alone, or after a message with a plain text
OddInputs ==
    {<<m>> : m \in OddMessages}
        \cup {<<SynthMessage(Str(c)), m>> :
                 c \in {"Hello!", "a Question?", "thanks"}, m \in OddMessages}

InitOdd ==
    /\ Loaded
    /\ call \in {Called(fn, msgs) :
                    fn \in {"get_sample_response", "main.get_sample_response"},
                    msgs \in OddInputs}

\* get_sample_response(messages) of src/main.py returns or raises
CallMainGetSampleResponse ==
    /\ call.fn = "main.get_sample_response"
    /\ ~call.done
    /\ call' = [call EXCEPT !.done = TRUE,
                            !.ret = main_get_sample_response(call.args)]
    /\ UNCHANGED outsideCall

NextOdd ==
    \/ CallGetSampleResponse
    \/ CallMainGetSampleResponse

SpecOdd == InitOdd /\ [][NextOdd]_vars

\* the last message is a dict
LastIsDict == IsDict(call.args[Len(call.args)])

\* C34: get_sample_response does not fail on an unusual last message: a
\* content that is missing, null or no plain string counts as empty, and the
\* reply is the fallback D whatever text is nested inside.
C34_OddLastMessageGetsFallback ==
    call.done => call.ret = SAMPLE_RESPONSES[4]

\* what holds: get_sample_response of src/pipes.py raises nothing, and
\* replies D whenever the last message is a dict
C34_OddContentGetsFallback ==
    (call.done /\ call.fn = "get_sample_response")
        => /\ call.ret \in Replies
           /\ LastIsDict => call.ret = SAMPLE_RESPONSES[4]

\* src/pipes.py has replied D to a last message whose content is a list with
\* text inside
C34_Witness ==
    /\ call.done
    /\ call.fn = "get_sample_response"
    /\ call.args = <<SynthMessage(List(<<Str("hello")>>))>>
    /\ call.ret = SAMPLE_RESPONSES[4]

-----------------------------------------------------------------------------
(* Properties of SpecPipe: the reply in the two modes *)

\* another run of the same messages: stream or not, with the random draw r,
\* with no uuid4 drawn yet and the clock at 0
RunAgain(request, stream, r) ==
    RunPipeResponse(RunBody(request["messages"], stream, Absent), 0, 0, r)

\* C35: the reply depends on the messages alone: a second run of the same
\* messages carries the same text whatever the random chunk count, the clock
\* and the ids drawn, and the content deltas of a stream read to its end put
\* together are the completion of the run that is not streamed.
C35_SameReplyInBothModes ==
    run.response.status = 200
        => \A r \in RunDraws :
              /\ ReplyOf(RunAgain(run.request, Bool(TRUE), r)) = ReplyOf(run.response)
              /\ RunAgain(run.request, Bool(FALSE), r).body.completion
                    = ReplyOf(run.response)

\* a streamed run of several content deltas has been answered after another
\* run
C35_Witness ==
    /\ run.response.status = 200
    /\ Len(run.response.events) > 5
    /\ Len(seen) = 2

-----------------------------------------------------------------------------
(* SpecMainPlan: generate_random_chunks of src/main.py called on a text, with *)
(* the bounds of the number of chunks and the value secrets.randbelow        *)
(* returns.                                                                  *)

\* the texts of SpecPlan, and texts with runs of blanks, blanks at their ends
\* and a word that comes again as the last one
MainPlanTexts ==
    PlanTexts \cup {"a  b", " lead", "trail ", "trail  ", "hi there hi", "so so",
                    "one two\nthree"}

MainPlanInputs ==
    {[text |-> text, min_chunks |-> m[1], max_chunks |-> m[2], r |-> r] :
        text \in MainPlanTexts, m \in {x \in PlanLimits : x[1] <= x[2]},
        r \in 0..(MAX_CHUNKS - MIN_CHUNKS)}

InitMainPlan ==
    /\ Loaded
    /\ call \in {Called("main.generate_random_chunks", a) :
                    a \in {x \in MainPlanInputs : x.r <= x.max_chunks - x.min_chunks}}

\* generate_random_chunks(text, min_chunks, max_chunks) of src/main.py returns
CallMainGenerateRandomChunks ==
    /\ call.fn = "main.generate_random_chunks"
    /\ ~call.done
    /\ call' = [call EXCEPT
                  !.done = TRUE,
                  !.ret = main_generate_random_chunks(
                              call.args.text, call.args.min_chunks,
                              call.args.max_chunks, call.args.r)]
    /\ UNCHANGED outsideCall

NextMainPlan == CallMainGenerateRandomChunks

SpecMainPlan == InitMainPlan /\ [][NextMainPlan]_vars

\* C36: the fragments generate_random_chunks of src/main.py returns, put
\* together in order, are the text exactly, for every text: also one with a
\* run of several blanks, with blanks at its start or end, or with a word
\* that comes again as its last word.
C36_MainFragmentsRebuildText ==
    (call.done /\ call.fn = "main.generate_random_chunks")
        => Concat(call.ret) = call.args.text

\* every blank token of the text is one space between two other tokens, or
\* one space at the end, and no token before the last equals the last
PlainlySpaced(text) ==
    LET tokens == MainTokens(FindAll(text), <<>>)
    IN  \A i \in 1..Len(tokens) :
           /\ ~HasNonSpace(tokens[i]) => (tokens[i] = " " /\ i > 1)
           /\ (HasNonSpace(tokens[i]) /\ i < Len(tokens))
                 => (tokens[i] # tokens[Len(tokens)] /\ ~HasNonSpace(tokens[i + 1]))

\* what holds: the fragments rebuild a text whose words are set apart by
\* single spaces and whose last word comes once
C36_PlainlySpacedRebuilt ==
    (call.done /\ call.fn = "main.generate_random_chunks"
        /\ PlainlySpaced(call.args.text))
        => Concat(call.ret) = call.args.text

\* a canned reply has been cut into more than one fragment
C36_Witness ==
    /\ call.done
    /\ call.fn = "main.generate_random_chunks"
    /\ call.args.text = SAMPLE_RESPONSES[1]
    /\ Len(call.ret) > 1

-----------------------------------------------------------------------------
(* Properties of SpecPlan: the groups *)

\* the number drawn: secrets.randbelow(max_chunks - min_chunks + 1) + min_chunks
Drawn(args) == args.r + args.min_chunks

\* count tokens in n groups, the first count % n of them one token longer:
\* the size of group i and the number of tokens before it
GroupSize(count, n, i) == (count \div n) + (IF i <= count % n THEN 1 ELSE 0)
RECURSIVE GroupStart(_, _, _)
GroupStart(count, n, i) ==
    IF i = 1 THEN 0
    ELSE GroupStart(count, n, i - 1) + GroupSize(count, n, i - 1)

\* the fragments of tokens in n such groups
Grouped(tokens, n) ==
    [i \in 1..n |->
        Join(SubSeq(tokens, GroupStart(Len(tokens), n, i) + 1,
                    GroupStart(Len(tokens), n, i) + GroupSize(Len(tokens), n, i)))]

\* the call has returned on a text with more of these tokens than the number
\* drawn
MoreThanDrawn(tokens) ==
    /\ call.done
    /\ call.fn = "generate_random_chunks"
    /\ Len(tokens) > Drawn(call.args)

\* C37: when the text has more tokens (word runs, punctuation characters,
\* runs of blanks) than the number n drawn, generate_random_chunks returns
\* exactly n fragments, none empty, each the tokens of one group put
\* together: the groups are contiguous, cover the tokens in order, and the
\* first (count mod n) of them hold floor(count / n) + 1 tokens, the others
\* floor(count / n).
C37_TokensInEvenGroups ==
    MoreThanDrawn(FindAll(call.args.text))
        => /\ call.ret = Grouped(FindAll(call.args.text), Drawn(call.args))
           /\ \A i \in 1..Len(call.ret) : call.ret[i] # ""

\* what holds: the same of the pieces the function cuts the text into (the
\* halves of long words, the letters of a short text)
C37_PiecesInEvenGroups ==
    MoreThanDrawn(Tokenize(call.args.text, call.args.min_chunks))
        => /\ call.ret = Grouped(Tokenize(call.args.text, call.args.min_chunks),
                                 Drawn(call.args))
           /\ \A i \in 1..Len(call.ret) : call.ret[i] # ""

\* a canned reply has been cut into seven fragments of unequal numbers of
\* pieces
C37_Witness ==
    /\ MoreThanDrawn(Tokenize(call.args.text, call.args.min_chunks))
    /\ call.args.text = SAMPLE_RESPONSES[1]
    /\ Drawn(call.args) = 7
    /\ Len(Tokenize(call.args.text, call.args.min_chunks)) % 7 # 0

-----------------------------------------------------------------------------
(* Properties of SpecStream: pacing and the end of the sequence *)

\* event is a content delta, whatever its fragment
CarriesContent(event) ==
    HasOneChoice(event) /\ IsContentDelta(event, event.choices[1].delta.content)

\* the consumer takes one more event in this step
TakesEvent ==
    /\ conn.at = "open"
    /\ conn'.at = "open"
    /\ Len(conn'.written) = Len(conn.written) + 1

\* the time.sleep calls the generator made between the event the consumer
\* took last and the one it takes in this step
SleptBetween == conn'.g.sleeps - conn.g.sleeps

\* C38: after a content delta that is not the last the generator sleeps once
\* before the next one; between the last content delta and the finish event,
\* and between the finish event, the usage event and the terminator, it does
\* not sleep.
C38_PacedBetweenContentOnly ==
    [][(TakesEvent /\ conn.written # <<>>)
          => LET before == conn.written[Len(conn.written)]
                 after == conn'.written[Len(conn'.written)]
             IN  /\ (CarriesContent(before) /\ CarriesContent(after))
                       => SleptBetween = 1
                 /\ (CarriesContent(before) /\ ~CarriesContent(after))
                       => (IsFinish(after) /\ SleptBetween = 0)
                 /\ (IsFinish(before) \/ IsUsageSummary(before))
                       => SleptBetween = 0]_vars

\* a stream of src/pipes.py with several content deltas has been read to its
\* end: the generator slept once after the role event and once after every
\* content delta but the last
C38_Witness ==
    /\ conn.at = "ended"
    /\ ~conn.failed
    /\ conn.handler = "http_handler"
    /\ Len(conn.g.chunks) > 1
    /\ Len(conn.written) = Len(conn.g.chunks) + 4
    /\ conn.g.sleeps = Len(conn.g.chunks)

\* next() once more on the generator of the connection, after the handler
\* has left its loop
AskedAgain == Advance(conn).out

\* C39: a stream is finite and cannot be started again: a consumer that
\* takes every event gets k + 4 events for k planned fragments and the
\* generator is then at its end; a generator that is exhausted, or that the
\* handler has abandoned after a failed write, yields nothing when it is
\* asked for a further event.
C39_EndedStreamYieldsNothing ==
    (conn.at = "ended" /\ conn.handler = "http_handler")
        => /\ ~conn.failed
                 => /\ Len(conn.written) = Len(conn.g.chunks) + 4
                    /\ conn.g.at = "end"
           /\ AskedAgain = Null

\* what holds: the stream read to its end has k + 4 events and its generator
\* yields nothing more; the generator abandoned after a failed write yields
\* nothing or goes on where it was suspended, and never announces the role
\* a second time
C39_ExhaustedStreamYieldsNothing ==
    (conn.at = "ended" /\ conn.handler = "http_handler")
        => /\ ~conn.failed
                 => /\ Len(conn.written) = Len(conn.g.chunks) + 4
                    /\ conn.g.at = "end"
                    /\ AskedAgain = Null
           /\ conn.failed
                 => /\ conn.g = conn.gAtFail
                    /\ ~IsRoleAnnounce(AskedAgain)

====
